---------------------------- MODULE Spec2Model ----------------------------
(***************************************************************************)
(* A model of the concurrent core of FlexLog: the hazard pointer domain,   *)
(* the copy-on-write RCUList, the LoggerMap registry, the bounded          *)
(* MessageQueue, the MessagePool and the LoggerThreadPool pipeline.        *)
(*                                                                         *)
(* Every atomic load, store, exchange or compare-exchange of the C++ code  *)
(* is one step of the thread that executes it; code between two atomic     *)
(* accesses that touches only thread-private data is folded into the       *)
(* neighbouring step.  Each component has its own specification            *)
(* (SpecHP, SpecRCU, SpecMap, SpecMQ, SpecPool); the variables of the      *)
(* other components stay at their initial values.                          *)
(***************************************************************************)
EXTENDS Integers, Sequences, FiniteSets, TLC

(***************************************************************************)
(* Bounds of the model.                                                    *)
(***************************************************************************)
\* threads of the hazard pointer / RCUList / LoggerMap specifications
NumThreads == 3
\* heap objects (pointers) that can be protected and retired
NumPtrs == 2
\* HazardPointerDomain::MAX_HAZARD_POINTERS (100 in HazardPointer.h:44),
\* scaled down: one slot per thread is all a thread ever claims
MAX_HAZARD_POINTERS == 3
\* HazardPointerDomain::SCAN_THRESHOLD (1000 in HazardPointer.h:45), scaled down
SCAN_THRESHOLD == 1
\* domain calls made by the threads of SpecHP in one run
MaxCallsHP == 4
\* values an RCUList holds
NumItems == 2
\* RCUList calls made by the threads of SpecRCU in one run
MaxCallsRCU == 4
\* logger names that hash to the bucket of SpecMap
NumNames == 2
\* LoggerMap calls made by the threads of SpecMap in one run
MaxCallsMap == 3
NumMapThreads == 2

\* MessageQueue: threads, message pointers, the largest capacity argument,
\* the calls of a run; DEFAULT_CAPACITY is 1024 in the source
\* (MessageQueue.h 47), scaled down
NumMQThreads == 2
NumMsgs == 2
MaxCapacity == 2
DEFAULT_CAPACITY == 2
MaxCallsMQ == 5

\* MessagePool and the logging pipeline.  CACHE_SIZE is 64 (MessagePool.h 54),
\* INITIAL_CAPACITY 1024 (MessagePool.h 70) and the scan limit 16
\* (MessagePool.cpp 39) in the source, scaled down; size_t and uint32_t
\* counters wrap at SizeModulus and RefModulus, scaled down from 2^64 and 2^32.
NumLogThreads == 2
NumWorkers == 2
NumSinks == 1
CACHE_SIZE == 1
INITIAL_CAPACITY == 1
GROWTH_FACTOR == 2
ScanLimit == 1
MaxChunks == 2
SizeModulus == 256
RefModulus == 256
MaxCallsPool == 3
MaxCallsPipe == 2
\* threads that call Flush, Shutdown and Resize on the thread pool
NumControllers == 2

\* AtomicString: the characters other than NUL, the size of the buffer
\* (MAX_LENGTH is 128 in the source, AtomicString.h 18, scaled down), the
\* calls of a run
NumChars == 2
MAX_LENGTH == 3
MaxCallsStr == 3

Threads == 1..NumThreads
Ptrs == 1..NumPtrs
\* nullptr
Null == 0
\* std::thread::id(): "no thread"
NoThread == 0
HazardSlots == 1..MAX_HAZARD_POINTERS
\* RetiredNode records: one is allocated by every RetireNode call
Recs == 1..NumPtrs

VARIABLES
    \* ---- HazardPointerDomain ----
    hzOwner,          \* m_hazardPointers[i].threadID
    hzPtr,            \* m_hazardPointers[i].pointer
    rnPointer,        \* RetiredNode::pointer, per record
    rnNext,           \* RetiredNode::next, per record
    rnState,          \* heap state of a record: "free", "live" or "deleted"
    m_retiredList,    \* head of the retired list
    m_retiredCount,
    freed,            \* pointers whose deleter has been invoked
    dom,              \* per thread: the frame of the domain call it is in
    hp,               \* per thread: its HazardPointer objects (m_index, m_active)
    calls,            \* the calls made so far in the run
    \* ---- RCUList<T> ----
    m_head,           \* RCUList::m_head
    nodeItems,        \* Node::items, per node
    nodeState,        \* heap state of a node: "free" or "live"
    rcu,              \* per thread: the frame of the RCUList call it is in
    \* ---- LogManager::LoggerMap, one bucket ----
    bucket,           \* m_buckets[bucketIndex]
    entName,          \* LoggerEntry::name, per entry
    entNext,          \* LoggerEntry::next, per entry
    entState,         \* heap state of an entry: "free" or "live"
    mp,               \* per thread: the frame of the LoggerMap call it is in
    uaf,              \* history: an entry was read or CAS-ed after its deletion
    got,              \* history: <<name, entry>> of the Logger each GetLogger or
                      \* RegisterLogger call returned
    \* ---- MessageQueue ----
    m_capacity,
    slotSeq,          \* m_slots[i].sequence
    slotMsg,          \* m_slots[i].message
    m_producerIndex,
    m_consumerIndex,
    m_peakUsage,
    mq,               \* per thread: the frame of the MessageQueue call it is in
    accepted,         \* history: the message accepted at each producer position
    returned,         \* history: <<consumer position, message returned>>
    nEnq,             \* history: successful TryEnqueue calls
    nDeq,             \* history: successful TryDequeue calls
    \* ---- MessagePool and Message ----
    used,             \* the in-use flag of a slot: s_localCache.used[i], chunk.used[j]
    tlsUsedCount,     \* s_localCache.usedCount, per thread
    msgState,         \* Message::state
    refCount,         \* Message::refCount
    msgLevel,         \* Message::level
    msgLogger,        \* Message::logger is not null
    m_chunks,         \* the sizes of the chunks, in the order of the vector
    m_chunkMutex,     \* the thread that holds the mutex, or NoThread
    m_size,
    pool_capacity,    \* MessagePool::m_capacity
    pool_peakUsage,   \* MessagePool::m_peakUsage
    m_nextChunkIndex,
    pl,               \* per thread: the frame of the MessagePool call it is in
    acquired,         \* history: Acquire calls that returned the slot since its finalization
    holders,          \* history: Acquire returns not yet passed to Release
    \* ---- Logger and LoggerThreadPool ----
    m_running,
    m_flushing,
    messageQueue,     \* QueueData::messageQueue, per queue: the items <<message, priority>>
    pendingMessages,  \* QueueData::pendingMessages, per queue
    m_nextQueueIndex,
    m_level,          \* Logger::m_level
    m_droppedMessages,
    m_totalProcessed,
    lg,               \* per logging thread: the frame of the Log call it is in
    wk,               \* per worker: its position in WorkerFunction
    processed,        \* history: messages that ProcessMessage has released
    m_queues,         \* m_queues.size()
    m_workers,        \* m_workers.size()
    joinable,         \* per worker: std::thread::joinable() of its m_workers element
    m_resizeMutex,    \* the thread that holds the mutex, or NoThread
    ct,               \* per controlling thread: the frame of the call it is in
    \* ---- LogManager ----
    m_state,          \* LogManager::m_state
    m_threadPool,     \* LogManager::m_threadPool is not null
    teardowns,        \* history: Shutdown calls that went past the state check
    deletes,          \* history: executions of delete threadPool
    once,             \* Initialize's statics: initFlag, initResult; bodies run so far
    m_loggerMap,      \* LogManager::m_loggerMap is not null
    loggerSinks,      \* per registry entry: the sinks of its Logger, in order
    \* ---- AtomicString (LogManager::m_defaultLoggerName) ----
    m_buffer,         \* AtomicString::m_buffer, positions 0..MAX_LENGTH-1
    m_length,         \* AtomicString::m_length
    str,              \* per thread: the frame of the AtomicString call it is in
    written,          \* history: the values that the constructor and Store wrote
    drawn,            \* history: the inputs that the run was started with
    \* ---- history of the pipeline ----
    msgRec,           \* the record a Message carries: the text CreateMessage wrote
    nPushed,          \* pushes onto the worker queues so far
    pushedRecs,       \* records that EnqueueMessage pushed onto a queue
    logTrue,          \* records whose Log call returned true
    sinkLog,          \* the records for which Output returned, in that order
    \* ---- history kept for the properties ----
    passed,           \* pointers that have been passed to RetireNode
    hzValid           \* slot holds a pointer stored before it was passed to RetireNode

domVars == <<hzOwner, hzPtr, rnPointer, rnNext, rnState, m_retiredList,
             m_retiredCount, freed, dom, hp, passed, hzValid>>

rcuVars == <<m_head, nodeItems, nodeState, rcu>>

mapVars == <<bucket, entName, entNext, entState, mp, uaf, got>>

mqVars == <<m_capacity, slotSeq, slotMsg, m_producerIndex, m_consumerIndex,
            m_peakUsage, mq, accepted, returned, nEnq, nDeq>>

msgVars == <<msgState, refCount, msgLevel, msgLogger>>

poolStats == <<m_size, pool_capacity, pool_peakUsage, m_nextChunkIndex>>

poolHist == <<acquired, holders>>

poolVars == <<used, tlsUsedCount, msgVars, m_chunks, m_chunkMutex, poolStats, pl,
              poolHist>>

\* the thread pool's vectors and the threads that control it
ctlVars == <<m_queues, m_workers, joinable, m_resizeMutex, ct>>

\* what Initialize and the registry add to the manager
strVars == <<m_buffer, m_length, str, written>>

regVars == <<loggerSinks, drawn, strVars>>

lifeVars == <<once, m_loggerMap, regVars>>

mgrVars == <<m_state, m_threadPool, teardowns, deletes, lifeVars>>

pipeHist == <<msgRec, nPushed, pushedRecs, logTrue, sinkLog>>

pipeVars == <<m_running, m_flushing, messageQueue, pendingMessages,
              m_nextQueueIndex, m_level, m_droppedMessages, m_totalProcessed, lg,
              wk, processed, ctlVars, mgrVars, pipeHist>>

\* the components that do not use a hazard domain
aloneVars == <<mqVars, poolVars, pipeVars>>

\* everything that is not the pool's
notPoolVars == <<domVars, calls, rcuVars, mapVars, mqVars, pipeVars>>

\* everything that is not the domain's
nonDomVars == <<calls, rcuVars, mapVars, aloneVars>>

vars == <<domVars, nonDomVars>>

(***************************************************************************)
(* HazardPointerDomain                                                     *)
(***************************************************************************)
\* the frame of a thread that is in no domain call
IdleFrame == [pc |-> "idle", ptr |-> Null, obj |-> 0, i |-> 0, rec |-> 0,
              oldHead |-> 0, hpList |-> {}, deferred |-> 0, toDelete |-> 0]

\* a default-constructed HazardPointer: m_index(0), m_active(false)
NewHazardPointer == [index |-> 0, active |-> FALSE]
HpObjs == 1..2

DomainInit ==
    /\ hzOwner = [i \in HazardSlots |-> NoThread]
    /\ hzPtr = [i \in HazardSlots |-> Null]
    /\ rnPointer = [r \in Recs |-> Null]
    /\ rnNext = [r \in Recs |-> 0]
    /\ rnState = [r \in Recs |-> "free"]
    /\ m_retiredList = 0
    /\ m_retiredCount = 0
    /\ freed = {}
    /\ dom = [t \in Threads |-> IdleFrame]
    /\ hp = [t \in Threads |-> [k \in HpObjs |-> NewHazardPointer]]
    /\ passed = {}
    /\ hzValid = [i \in HazardSlots |-> FALSE]

InDomain(t) == dom[t].pc # "idle"

\* the records reached from r by following next, at most fuel of them
RECURSIVE ChainFrom(_, _, _)
ChainFrom(next, r, fuel) ==
    IF r = 0 \/ fuel = 0 THEN <<>>
    ELSE <<r>> \o ChainFrom(next, next[r], fuel - 1)

\* following next from r never reaches null: a loop over the list does not end
RECURSIVE Cyclic(_, _, _)
Cyclic(next, r, fuel) ==
    IF r = 0 THEN FALSE
    ELSE IF fuel = 0 THEN TRUE
    ELSE Cyclic(next, next[r], fuel - 1)

\* the last record of the list that starts at r (r # 0, list acyclic)
RECURSIVE LastOf(_, _)
LastOf(next, r) == IF next[r] = 0 THEN r ELSE LastOf(next, next[r])

\* ---- ProtectPointer (HazardPointer.cpp 25-56), called through
\* ---- HazardPointer::Protect (HazardPointer.h 86-99)
CallProtect(t, k, p) ==
    dom' = [dom EXCEPT ![t] = [IdleFrame EXCEPT !.pc = "pp_scan", !.ptr = p,
                                                !.obj = k]]

\* the slot loop: the first slot that this thread owns already or that it
\* claims by compare-exchange.  A slot once owned is never given up, so the
\* slots the loop passes over stay owned by others and the loop is one step.
\* hpIndex is set as soon as the slot is chosen.
OwnSlots(t) == {i \in HazardSlots : hzOwner[i] = t \/ hzOwner[i] = NoThread}

PP_Scan(t) ==
    /\ dom[t].pc = "pp_scan"
    /\ UNCHANGED nonDomVars
    /\ IF OwnSlots(t) = {}
       THEN \* throw std::runtime_error("Out of hazard pointers")
            /\ dom' = [dom EXCEPT ![t] = [IdleFrame EXCEPT !.pc = "thrown"]]
            /\ UNCHANGED <<hzOwner, hp>>
       ELSE LET i == CHOOSE x \in OwnSlots(t) : \A y \in OwnSlots(t) : x <= y IN
            /\ hzOwner' = [hzOwner EXCEPT ![i] = t]
            /\ hp' = [hp EXCEPT ![t][dom[t].obj].index = i]
            /\ dom' = [dom EXCEPT ![t].pc = "pp_store", ![t].i = i]
    /\ UNCHANGED <<hzPtr, rnPointer, rnNext, rnState, m_retiredList,
                   m_retiredCount, freed, passed, hzValid>>

\* m_hazardPointers[i].pointer.store(ptr); Protect then sets m_active
PP_Store(t) ==
    /\ dom[t].pc = "pp_store"
    /\ UNCHANGED nonDomVars
    /\ LET i == dom[t].i IN
       /\ hzPtr' = [hzPtr EXCEPT ![i] = dom[t].ptr]
       /\ hzValid' = [hzValid EXCEPT ![i] = dom[t].ptr \notin passed]
    /\ hp' = [hp EXCEPT ![t][dom[t].obj].active = TRUE]
    /\ dom' = [dom EXCEPT ![t] = IdleFrame]
    /\ UNCHANGED <<hzOwner, rnPointer, rnNext, rnState, m_retiredList,
                   m_retiredCount, freed, passed>>

\* ---- UnprotectPointer (HazardPointer.cpp 58-61)
UnprotectPointer(hpIndex) ==
    /\ hzPtr' = [hzPtr EXCEPT ![hpIndex] = Null]
    /\ hzValid' = [hzValid EXCEPT ![hpIndex] = FALSE]

\* ---- HazardPointer::Reset (HazardPointer.cpp 169-176) on object k of thread t
ResetHazardPointer(t, k) ==
    IF hp[t][k].active
    THEN /\ UnprotectPointer(hp[t][k].index)
         /\ hp' = [hp EXCEPT ![t][k].active = FALSE]
    ELSE UNCHANGED <<hzPtr, hzValid, hp>>

\* ---- RetireNode (HazardPointer.cpp 63-84)
CallRetire(t, p) ==
    /\ dom' = [dom EXCEPT ![t] = [IdleFrame EXCEPT !.pc = "rn_begin", !.ptr = p]]
    /\ passed' = passed \cup {p}

FreeRecs == {r \in Recs : rnState[r] = "free"}

\* new RetiredNode{ptr, deleter, epoch, nullptr}; oldHead = m_retiredList.load()
RN_Begin(t) ==
    /\ dom[t].pc = "rn_begin"
    /\ UNCHANGED nonDomVars
    /\ FreeRecs # {}
    /\ LET r == CHOOSE x \in FreeRecs : \A y \in FreeRecs : x <= y IN
       /\ rnState' = [rnState EXCEPT ![r] = "live"]
       /\ rnPointer' = [rnPointer EXCEPT ![r] = dom[t].ptr]
       /\ rnNext' = [rnNext EXCEPT ![r] = 0]
       /\ dom' = [dom EXCEPT ![t].pc = "rn_cas", ![t].rec = r,
                             ![t].oldHead = m_retiredList]
    /\ UNCHANGED <<hzOwner, hzPtr, m_retiredList, m_retiredCount, freed, hp,
                   passed, hzValid>>

\* retiredNode->next = oldHead; compare_exchange_weak(oldHead, retiredNode)
RN_Cas(t) ==
    /\ dom[t].pc = "rn_cas"
    /\ UNCHANGED nonDomVars
    /\ rnNext' = [rnNext EXCEPT ![dom[t].rec] = dom[t].oldHead]
    /\ IF m_retiredList = dom[t].oldHead
       THEN /\ m_retiredList' = dom[t].rec
            /\ dom' = [dom EXCEPT ![t].pc = "rn_count"]
       ELSE /\ dom' = [dom EXCEPT ![t].oldHead = m_retiredList]
            /\ UNCHANGED m_retiredList
    /\ UNCHANGED <<hzOwner, hzPtr, rnPointer, rnState, m_retiredCount, freed,
                   hp, passed, hzValid>>

\* if (m_retiredCount.fetch_add(1) >= SCAN_THRESHOLD) TryCleanup();
RN_Count(t) ==
    /\ dom[t].pc = "rn_count"
    /\ UNCHANGED nonDomVars
    /\ m_retiredCount' = m_retiredCount + 1
    /\ dom' = [dom EXCEPT ![t] = IF m_retiredCount >= SCAN_THRESHOLD
                                 THEN [IdleFrame EXCEPT !.pc = "tc_reset"]
                                 ELSE IdleFrame]
    /\ UNCHANGED <<hzOwner, hzPtr, rnPointer, rnNext, rnState, m_retiredList,
                   freed, hp, passed, hzValid>>

\* ---- TryCleanup (HazardPointer.cpp 86-159)
CallTryCleanup(t) ==
    dom' = [dom EXCEPT ![t] = [IdleFrame EXCEPT !.pc = "tc_reset"]]

\* m_retiredCount.store(0)
TC_Reset(t) ==
    /\ dom[t].pc = "tc_reset"
    /\ UNCHANGED nonDomVars
    /\ m_retiredCount' = 0
    /\ dom' = [dom EXCEPT ![t].pc = "tc_scan", ![t].i = 1]
    /\ UNCHANGED <<hzOwner, hzPtr, rnPointer, rnNext, rnState, m_retiredList,
                   freed, hp, passed, hzValid>>

\* one iteration of the loop that collects the non-null hazard pointers
TC_Scan(t) ==
    /\ dom[t].pc = "tc_scan"
    /\ UNCHANGED nonDomVars
    /\ LET i == dom[t].i
           seen == IF hzPtr[i] # Null THEN dom[t].hpList \cup {hzPtr[i]}
                   ELSE dom[t].hpList IN
       dom' = [dom EXCEPT ![t].hpList = seen, ![t].i = i + 1,
                          ![t].pc = IF i = MAX_HAZARD_POINTERS THEN "tc_xchg"
                                    ELSE "tc_scan"]
    /\ UNCHANGED <<hzOwner, hzPtr, rnPointer, rnNext, rnState, m_retiredList,
                   m_retiredCount, freed, hp, passed, hzValid>>

\* the loop over the extracted list: a record whose pointer is in hpList is
\* pushed onto deferred, any other onto toDelete.  st = <<next, deferred, toDelete>>
RECURSIVE Partition(_, _, _)
Partition(chain, hpList, st) ==
    IF chain = <<>> THEN st
    ELSE LET cur == Head(chain) IN
         IF rnPointer[cur] \in hpList
         THEN Partition(Tail(chain), hpList,
                        <<[st[1] EXCEPT ![cur] = st[2]], cur, st[3]>>)
         ELSE Partition(Tail(chain), hpList,
                        <<[st[1] EXCEPT ![cur] = st[3]], st[2], cur>>)

\* nodes = m_retiredList.exchange(nullptr); if (!nodes) return; then the
\* partition of the extracted records
TC_Exchange(t) ==
    /\ dom[t].pc = "tc_xchg"
    /\ UNCHANGED nonDomVars
    /\ m_retiredList' = 0
    /\ IF m_retiredList = 0
       THEN /\ dom' = [dom EXCEPT ![t] = IdleFrame]
            /\ UNCHANGED rnNext
       ELSE IF Cyclic(rnNext, m_retiredList, NumPtrs)
       THEN \* while (nodes) never ends
            /\ dom' = [dom EXCEPT ![t] = [IdleFrame EXCEPT !.pc = "hang"]]
            /\ UNCHANGED rnNext
       ELSE LET st == Partition(ChainFrom(rnNext, m_retiredList, NumPtrs),
                                dom[t].hpList, <<rnNext, 0, 0>>) IN
            /\ rnNext' = st[1]
            /\ dom' = [dom EXCEPT ![t].deferred = st[2], ![t].toDelete = st[3],
                                  ![t].hpList = {}, ![t].i = 0,
                                  ![t].pc = IF st[2] # 0 THEN "tc_load"
                                            ELSE "tc_delete"]
    /\ UNCHANGED <<hzOwner, hzPtr, rnPointer, rnState, m_retiredCount, freed,
                   hp, passed, hzValid>>

\* oldHead = m_retiredList.load()
TC_Load(t) ==
    /\ dom[t].pc = "tc_load"
    /\ UNCHANGED nonDomVars
    /\ dom' = [dom EXCEPT ![t].oldHead = m_retiredList, ![t].pc = "tc_cas"]
    /\ UNCHANGED <<hzOwner, hzPtr, rnPointer, rnNext, rnState, m_retiredList,
                   m_retiredCount, freed, hp, passed, hzValid>>

\* last = deferred; while (last->next) last = last->next; last->next = oldHead;
\* compare_exchange_weak(oldHead, deferred)
TC_Cas(t) ==
    /\ dom[t].pc = "tc_cas"
    /\ UNCHANGED nonDomVars
    /\ IF Cyclic(rnNext, dom[t].deferred, NumPtrs)
       THEN /\ dom' = [dom EXCEPT ![t] = [IdleFrame EXCEPT !.pc = "hang"]]
            /\ UNCHANGED <<rnNext, m_retiredList>>
       ELSE /\ rnNext' = [rnNext EXCEPT ![LastOf(rnNext, dom[t].deferred)] =
                                            dom[t].oldHead]
            /\ IF m_retiredList = dom[t].oldHead
               THEN /\ m_retiredList' = dom[t].deferred
                    /\ dom' = [dom EXCEPT ![t].pc = "tc_count", ![t].oldHead = 0,
                                          ![t].deferred = 0]
               ELSE /\ dom' = [dom EXCEPT ![t].oldHead = m_retiredList]
                    /\ UNCHANGED m_retiredList
    /\ UNCHANGED <<hzOwner, hzPtr, rnPointer, rnState, m_retiredCount, freed,
                   hp, passed, hzValid>>

\* m_retiredCount.fetch_add(1)
TC_Count(t) ==
    /\ dom[t].pc = "tc_count"
    /\ UNCHANGED nonDomVars
    /\ m_retiredCount' = m_retiredCount + 1
    /\ dom' = [dom EXCEPT ![t].pc = "tc_delete"]
    /\ UNCHANGED <<hzOwner, hzPtr, rnPointer, rnNext, rnState, m_retiredList,
                   freed, hp, passed, hzValid>>

\* one iteration of the loop that deletes: current->deleter(current->pointer);
\* delete current
TC_Delete(t) ==
    /\ dom[t].pc = "tc_delete"
    /\ UNCHANGED nonDomVars
    /\ LET cur == dom[t].toDelete IN
       IF cur = 0
       THEN /\ dom' = [dom EXCEPT ![t] = IdleFrame]
            /\ UNCHANGED <<freed, rnState>>
       ELSE /\ freed' = freed \cup {rnPointer[cur]}
            /\ rnState' = [rnState EXCEPT ![cur] = "deleted"]
            /\ dom' = [dom EXCEPT ![t].toDelete = rnNext[cur]]
    /\ UNCHANGED <<hzOwner, hzPtr, rnPointer, rnNext, m_retiredList,
                   m_retiredCount, hp, passed, hzValid>>

(***************************************************************************)
(* LogManager::LoggerMap (LogManager.cpp 18-203), the chain of one bucket. *)
(* An entry is a heap object of the domain's Ptrs.  A deleted entry keeps  *)
(* the fields it had; a read or compare-exchange of a deleted entry is     *)
(* undefined behaviour: it either sees those fields or ends the thread.    *)
(***************************************************************************)
Names == 1..NumNames

\* the threads that call into the LoggerMap
MapThreads == 1..NumMapThreads

\* caller is the LogManager function that made the call of the frame, "none"
\* for a call made on the LoggerMap directly
IdleMap == [pc |-> "idle", name |-> 0, prev |-> Null, current |-> Null,
            next |-> Null, result |-> FALSE, caller |-> "none"]

RECURSIVE InitialName(_)
InitialName(p) == IF p <= NumNames THEN p ELSE InitialName(p - NumNames)

\* a LoggerMap into which k entries, named 1..k, have been inserted one after
\* the other: Insert prepends, so entry k is the head and entry 1 the last
MapInit(k) ==
    /\ bucket = k
    /\ entName = [p \in Ptrs |-> IF p <= k THEN InitialName(p) ELSE 0]
    /\ entNext = [p \in Ptrs |-> IF p <= k THEN p - 1 ELSE Null]
    /\ entState = [p \in Ptrs |-> IF p <= k THEN "live" ELSE "free"]
    /\ mp = [t \in Threads |-> IdleMap]
    /\ uaf = FALSE
    /\ got = {}

StartCallMap(t) ==
    /\ mp[t].pc = "idle"
    /\ ~InDomain(t)
    /\ calls < MaxCallsMap
    /\ calls' = calls + 1

\* what a dereference of entry p can do: "ok", or on a deleted entry the stale
\* fields ("stale") or the end of the thread ("crash")
Deref(p) == IF p \in freed THEN {"stale", "crash"} ELSE {"ok"}

Crashed == [IdleMap EXCEPT !.pc = "crash"]

\* the destructors of the HazardPointer objects ks of thread t
\* (HazardPointer.cpp 163-167): each active one clears its slot
DestroyHazardPointers(t, ks) ==
    LET slots == {hp[t][k].index : k \in {j \in ks : hp[t][j].active}} IN
    /\ hzPtr' = [i \in HazardSlots |-> IF i \in slots THEN Null ELSE hzPtr[i]]
    /\ hzValid' = [i \in HazardSlots |-> IF i \in slots THEN FALSE ELSE hzValid[i]]
    /\ hp' = [hp EXCEPT ![t] = [k \in HpObjs |-> IF k \in ks THEN NewHazardPointer
                                                 ELSE hp[t][k]]]

\* ---- Find (LogManager.cpp 60-92): HazardPointer hp; current = bucket.load()
FindCall(t, n, caller) ==
    /\ mp' = [mp EXCEPT ![t] = [IdleMap EXCEPT !.pc = "f_loop", !.name = n,
                                               !.current = bucket,
                                               !.caller = caller]]
    /\ hp' = [hp EXCEPT ![t][1] = NewHazardPointer]
    /\ UNCHANGED <<hzOwner, hzPtr, rnPointer, rnNext, rnState, m_retiredList,
                   m_retiredCount, freed, dom, passed, hzValid>>
    /\ UNCHANGED <<rcuVars, aloneVars, got, bucket, entName, entNext, entState, uaf>>

Find_Begin(t, n) ==
    /\ StartCallMap(t)
    /\ FindCall(t, n, "none")

\* Find returns entry, or nullopt when entry is null.  GetLogger
\* (LogManager.cpp 363-370) returns a Logger that was found and calls
\* RegisterLogger otherwise; RegisterLogger (lines 345-347) returns a Logger
\* that was found and goes on to create one otherwise.
FindReturn(t, entry) ==
    IF mp[t].caller = "none" THEN [IdleMap EXCEPT !.result = (entry # Null)]
    ELSE IF entry # Null THEN IdleMap
    ELSE IF mp[t].caller = "GetLogger"
    THEN [IdleMap EXCEPT !.pc = "reg_state", !.name = mp[t].name,
                         !.caller = "GetLogger"]
    ELSE [IdleMap EXCEPT !.pc = "reg_create", !.name = mp[t].name,
                         !.caller = mp[t].caller]

\* the Loggers returned so far, after a call of t for LogManager returns entry
GotAfter(t, entry) ==
    IF mp[t].caller # "none" /\ entry # Null THEN got \cup {<<mp[t].name, entry>>}
    ELSE got

\* while (current): current = hp.Protect(current); after the loop return nullopt
Find_Loop(t) ==
    /\ mp[t].pc = "f_loop"
    /\ IF mp[t].current = Null
       THEN /\ DestroyHazardPointers(t, {1})
            /\ mp' = [mp EXCEPT ![t] = FindReturn(t, Null)]
            /\ UNCHANGED dom
       ELSE /\ CallProtect(t, 1, mp[t].current)
            /\ mp' = [mp EXCEPT ![t].pc = "f_validate"]
            /\ UNCHANGED <<hzPtr, hzValid, hp>>
    /\ UNCHANGED <<hzOwner, rnPointer, rnNext, rnState, m_retiredList,
                   m_retiredCount, freed, passed>>
    /\ UNCHANGED <<calls, rcuVars, aloneVars, got, bucket, entName, entNext, entState, uaf>>

\* if (!current || current != m_buckets[bucketIndex].load())
Find_Validate(t) ==
    /\ mp[t].pc = "f_validate"
    /\ ~InDomain(t)
    /\ mp' = [mp EXCEPT ![t].pc = IF mp[t].current # bucket THEN "f_reload"
                                  ELSE "f_name"]
    /\ UNCHANGED <<domVars, calls, rcuVars, aloneVars, got, bucket, entName, entNext, entState, uaf>>

\* current = m_buckets[bucketIndex].load(); continue
Find_Reload(t) ==
    /\ mp[t].pc = "f_reload"
    /\ mp' = [mp EXCEPT ![t].pc = "f_loop", ![t].current = bucket]
    /\ UNCHANGED <<domVars, calls, rcuVars, aloneVars, got, bucket, entName, entNext, entState, uaf>>

\* if (current->name == name) return *(current->logger)
Find_Name(t) ==
    /\ mp[t].pc = "f_name"
    /\ uaf' = (uaf \/ mp[t].current \in freed)
    /\ \E outcome \in Deref(mp[t].current) :
         IF outcome = "crash"
         THEN /\ mp' = [mp EXCEPT ![t] = Crashed]
              /\ UNCHANGED <<hzPtr, hzValid, hp>>
         ELSE IF entName[mp[t].current] = mp[t].name
         THEN /\ DestroyHazardPointers(t, {1})
              /\ mp' = [mp EXCEPT ![t] = FindReturn(t, mp[t].current)]
         ELSE /\ mp' = [mp EXCEPT ![t].pc = "f_next"]
              /\ UNCHANGED <<hzPtr, hzValid, hp>>
    /\ got' = IF entName[mp[t].current] = mp[t].name /\ mp'[t].pc # "crash"
              THEN GotAfter(t, mp[t].current) ELSE got
    /\ UNCHANGED <<hzOwner, rnPointer, rnNext, rnState, m_retiredList,
                   m_retiredCount, freed, dom, passed>>
    /\ UNCHANGED <<calls, rcuVars, aloneVars, bucket, entName, entNext, entState>>

\* next = current->next.load(); hp.Reset(); current = next
Find_Next(t) ==
    /\ mp[t].pc = "f_next"
    /\ uaf' = (uaf \/ mp[t].current \in freed)
    /\ \E outcome \in Deref(mp[t].current) :
         IF outcome = "crash"
         THEN /\ mp' = [mp EXCEPT ![t] = Crashed]
              /\ UNCHANGED <<hzPtr, hzValid, hp>>
         ELSE /\ ResetHazardPointer(t, 1)
              /\ mp' = [mp EXCEPT ![t].pc = "f_loop",
                                  ![t].current = entNext[mp[t].current]]
    /\ UNCHANGED <<hzOwner, rnPointer, rnNext, rnState, m_retiredList,
                   m_retiredCount, freed, dom, passed>>
    /\ UNCHANGED <<calls, rcuVars, aloneVars, got, bucket, entName, entNext, entState>>

\* ---- Insert (LogManager.cpp 99-114): entry = new LoggerEntry(name, logger);
\* oldHead = bucket.load()
FreeEntries == {p \in Ptrs : entState[p] = "free"}
NewEntry == CHOOSE x \in FreeEntries : \A y \in FreeEntries : x <= y

InsertCall(t, n, caller) ==
    /\ FreeEntries # {}
    /\ entState' = [entState EXCEPT ![NewEntry] = "live"]
    /\ entName' = [entName EXCEPT ![NewEntry] = n]
    /\ mp' = [mp EXCEPT ![t] = [IdleMap EXCEPT !.pc = "i_cas", !.name = n,
                                               !.current = NewEntry,
                                               !.next = bucket,
                                               !.caller = caller]]
    /\ UNCHANGED <<domVars, rcuVars, aloneVars, got, bucket, entNext, uaf>>

Insert_Begin(t, n) ==
    /\ StartCallMap(t)
    /\ InsertCall(t, n, "none")

\* entry->next.store(oldHead); bucket.compare_exchange_weak(oldHead, entry)
Insert_Cas(t) ==
    /\ mp[t].pc = "i_cas"
    /\ entNext' = [entNext EXCEPT ![mp[t].current] = mp[t].next]
    /\ IF bucket = mp[t].next
       THEN /\ bucket' = mp[t].current
            /\ mp' = [mp EXCEPT ![t] = IdleMap]
            /\ got' = GotAfter(t, mp[t].current)
       ELSE /\ mp' = [mp EXCEPT ![t].next = bucket]
            /\ UNCHANGED <<bucket, got>>
    /\ UNCHANGED <<domVars, calls, rcuVars, aloneVars, entName, entState, uaf>>

\* ---- LogManager::GetLogger (LogManager.cpp 363-370): m_loggerMap->Find(name)
GetLogger_Begin(t, n) ==
    /\ StartCallMap(t)
    /\ FindCall(t, n, "GetLogger")

\* ---- LogManager::RegisterLogger (LogManager.cpp 339-361), called by a
\* thread or by GetLogger: currentState = m_state.load(); it throws unless the
\* state is Running, otherwise m_loggerMap->Find(name)
RegisterLogger_Begin(t, n) ==
    /\ StartCallMap(t)
    /\ mp' = [mp EXCEPT ![t] = [IdleMap EXCEPT !.pc = "reg_state", !.name = n,
                                               !.caller = "RegisterLogger"]]
    /\ UNCHANGED <<domVars, rcuVars, aloneVars, got, bucket, entName, entNext,
                   entState, uaf>>

Register_State(t) ==
    /\ mp[t].pc = "reg_state"
    /\ IF m_state # "Running"
       THEN /\ mp' = [mp EXCEPT ![t] = IdleMap]
            /\ UNCHANGED <<domVars, rcuVars, aloneVars, got, bucket, entName,
                           entNext, entState, uaf>>
       ELSE FindCall(t, mp[t].name, "RegisterLogger")
    /\ UNCHANGED calls

\* EnsureThreadPoolInitialized finds the thread pool of the running manager,
\* the new Logger gets the global sinks, and Insert starts:
\* entry = new LoggerEntry(name, logger); oldHead = bucket.load()
Register_Create(t) ==
    /\ mp[t].pc = "reg_create"
    /\ InsertCall(t, mp[t].name, "RegisterLogger")
    /\ UNCHANGED calls

\* ---- Remove (LogManager.cpp 116-184): HazardPointer hpCurrent, hpNext;
\* prev = nullptr; current = bucket.load()
MapRemove_Begin(t, n) ==
    /\ StartCallMap(t)
    /\ mp' = [mp EXCEPT ![t] = [IdleMap EXCEPT !.pc = "r_loop", !.name = n,
                                               !.current = bucket]]
    /\ hp' = [hp EXCEPT ![t] = [k \in HpObjs |-> NewHazardPointer]]
    /\ UNCHANGED <<hzOwner, hzPtr, rnPointer, rnNext, rnState, m_retiredList,
                   m_retiredCount, freed, dom, passed, hzValid>>
    /\ UNCHANGED <<rcuVars, aloneVars, got, bucket, entName, entNext, entState, uaf>>

\* while (current): current = hpCurrent.Protect(current); after the loop
\* return false
MapRemove_Loop(t) ==
    /\ mp[t].pc = "r_loop"
    /\ IF mp[t].current = Null
       THEN /\ DestroyHazardPointers(t, {1, 2})
            /\ mp' = [mp EXCEPT ![t] = IdleMap]
            /\ UNCHANGED dom
       ELSE /\ CallProtect(t, 1, mp[t].current)
            /\ mp' = [mp EXCEPT ![t].pc = "r_validate"]
            /\ UNCHANGED <<hzPtr, hzValid, hp>>
    /\ UNCHANGED <<hzOwner, rnPointer, rnNext, rnState, m_retiredList,
                   m_retiredCount, freed, passed>>
    /\ UNCHANGED <<calls, rcuVars, aloneVars, got, bucket, entName, entNext, entState, uaf>>

\* if (prev == nullptr && current != m_buckets[bucketIndex].load())
MapRemove_Validate(t) ==
    /\ mp[t].pc = "r_validate"
    /\ ~InDomain(t)
    /\ mp' = [mp EXCEPT ![t].pc = IF mp[t].prev = Null /\ mp[t].current # bucket
                                  THEN "r_reload" ELSE "r_next"]
    /\ UNCHANGED <<domVars, calls, rcuVars, aloneVars, got, bucket, entName, entNext, entState, uaf>>

\* current = m_buckets[bucketIndex].load(); continue
MapRemove_Reload(t) ==
    /\ mp[t].pc = "r_reload"
    /\ mp' = [mp EXCEPT ![t].pc = "r_loop", ![t].current = bucket]
    /\ UNCHANGED <<domVars, calls, rcuVars, aloneVars, got, bucket, entName, entNext, entState, uaf>>

\* next = current->next.load(); next = hpNext.Protect(next)
MapRemove_Next(t) ==
    /\ mp[t].pc = "r_next"
    /\ uaf' = (uaf \/ mp[t].current \in freed)
    /\ \E outcome \in Deref(mp[t].current) :
         IF outcome = "crash"
         THEN /\ mp' = [mp EXCEPT ![t] = Crashed]
              /\ UNCHANGED dom
         ELSE /\ mp' = [mp EXCEPT ![t].pc = "r_name",
                                  ![t].next = entNext[mp[t].current]]
              /\ IF entNext[mp[t].current] # Null
                 THEN CallProtect(t, 2, entNext[mp[t].current])
                 ELSE UNCHANGED dom
    /\ UNCHANGED <<hzOwner, hzPtr, rnPointer, rnNext, rnState, m_retiredList,
                   m_retiredCount, freed, hp, passed, hzValid>>
    /\ UNCHANGED <<calls, rcuVars, aloneVars, got, bucket, entName, entNext, entState>>

\* if (current->name == name) ... else { prev = current;
\* hpCurrent = std::move(hpNext); current = next; hpNext = HazardPointer(...) }
\* The move assignment (HazardPointer.cpp 183-194) resets hpCurrent, which
\* clears its slot, and then takes the index and the active flag of hpNext.
MapRemove_Name(t) ==
    /\ mp[t].pc = "r_name"
    /\ ~InDomain(t)
    /\ uaf' = (uaf \/ mp[t].current \in freed)
    /\ \E outcome \in Deref(mp[t].current) :
         IF outcome = "crash"
         THEN /\ mp' = [mp EXCEPT ![t] = Crashed]
              /\ UNCHANGED <<hzPtr, hzValid, hp>>
         ELSE IF entName[mp[t].current] = mp[t].name
         THEN /\ mp' = [mp EXCEPT ![t].pc = IF mp[t].prev = Null THEN "r_cashead"
                                            ELSE "r_casprev"]
              /\ UNCHANGED <<hzPtr, hzValid, hp>>
         ELSE /\ LET slot == hp[t][1].index IN
                 IF hp[t][1].active
                 THEN /\ hzPtr' = [hzPtr EXCEPT ![slot] = Null]
                      /\ hzValid' = [hzValid EXCEPT ![slot] = FALSE]
                 ELSE UNCHANGED <<hzPtr, hzValid>>
              /\ hp' = [hp EXCEPT ![t] = [k \in HpObjs |->
                            IF k = 1 THEN hp[t][2] ELSE NewHazardPointer]]
              /\ mp' = [mp EXCEPT ![t].pc = "r_loop", ![t].prev = mp[t].current,
                                  ![t].current = mp[t].next, ![t].next = Null]
    /\ UNCHANGED <<hzOwner, rnPointer, rnNext, rnState, m_retiredList,
                   m_retiredCount, freed, dom, passed>>
    /\ UNCHANGED <<calls, rcuVars, aloneVars, got, bucket, entName, entNext, entState>>

\* m_buckets[bucketIndex].compare_exchange_strong(current, next); on success
\* hpCurrent.Reset(); RetireNode(current); return true; else reload and continue
MapRemove_CasHead(t) ==
    /\ mp[t].pc = "r_cashead"
    /\ IF bucket = mp[t].current
       THEN /\ bucket' = mp[t].next
            /\ ResetHazardPointer(t, 1)
            /\ CallRetire(t, mp[t].current)
            /\ mp' = [mp EXCEPT ![t].pc = "r_end", ![t].result = TRUE]
       ELSE /\ mp' = [mp EXCEPT ![t].pc = "r_reload"]
            /\ UNCHANGED <<bucket, hzPtr, hzValid, hp, dom, passed>>
    /\ UNCHANGED <<hzOwner, rnPointer, rnNext, rnState, m_retiredList,
                   m_retiredCount, freed>>
    /\ UNCHANGED <<calls, rcuVars, aloneVars, got, entName, entNext, entState, uaf>>

\* prev->next.compare_exchange_strong(current, next); on success
\* hpCurrent.Reset(); RetireNode(current); return true; else prev = nullptr,
\* reload and continue
MapRemove_CasPrev(t) ==
    /\ mp[t].pc = "r_casprev"
    /\ uaf' = (uaf \/ mp[t].prev \in freed)
    /\ \E outcome \in Deref(mp[t].prev) :
         IF outcome = "crash"
         THEN /\ mp' = [mp EXCEPT ![t] = Crashed]
              /\ UNCHANGED <<entNext, hzPtr, hzValid, hp, dom, passed>>
         ELSE IF entNext[mp[t].prev] = mp[t].current
         THEN /\ entNext' = [entNext EXCEPT ![mp[t].prev] = mp[t].next]
              /\ ResetHazardPointer(t, 1)
              /\ CallRetire(t, mp[t].current)
              /\ mp' = [mp EXCEPT ![t].pc = "r_end", ![t].result = TRUE]
         ELSE /\ mp' = [mp EXCEPT ![t].pc = "r_reload", ![t].prev = Null]
              /\ UNCHANGED <<entNext, hzPtr, hzValid, hp, dom, passed>>
    /\ UNCHANGED <<hzOwner, rnPointer, rnNext, rnState, m_retiredList,
                   m_retiredCount, freed>>
    /\ UNCHANGED <<calls, rcuVars, aloneVars, got, bucket, entName, entState>>

\* RetireNode has returned: ~hpNext, ~hpCurrent, return true
MapRemove_End(t) ==
    /\ mp[t].pc = "r_end"
    /\ ~InDomain(t)
    /\ DestroyHazardPointers(t, {1, 2})
    /\ mp' = [mp EXCEPT ![t] = [IdleMap EXCEPT !.result = TRUE]]
    /\ UNCHANGED <<hzOwner, rnPointer, rnNext, rnState, m_retiredList,
                   m_retiredCount, freed, dom, passed>>
    /\ UNCHANGED <<calls, rcuVars, aloneVars, got, bucket, entName, entNext, entState, uaf>>

\* ---- m_hazardDomain->TryCleanup(), the domain's public cleanup
Map_TryCleanup(t) ==
    /\ StartCallMap(t)
    /\ CallTryCleanup(t)
    /\ UNCHANGED <<hzOwner, hzPtr, rnPointer, rnNext, rnState, m_retiredList,
                   m_retiredCount, freed, hp, passed, hzValid>>
    /\ UNCHANGED <<rcuVars, aloneVars, mapVars>>

(***************************************************************************)
(* MessageQueue (Core/MessageQueue.h, Core/MessageQueue.cpp): the bounded  *)
(* ring of slots with a sequence number each.  One atomic access per step. *)
(***************************************************************************)
MQThreads == 1..NumMQThreads
Msgs == 1..NumMsgs

\* the bits below the highest set bit of v all set (v |= v >> 1; v |= v >> 2; ...)
RECURSIVE Smear(_)
Smear(v) == IF v = 0 THEN 0 ELSE 2 * Smear(v \div 2) + 1

\* --v; v |= v >> 1; ... ; return v + 1
RoundUpPow2(v) == Smear(v - 1) + 1

\* the largest capacity a queue of the model can have
MaxSlots == RoundUpPow2(IF MaxCapacity > DEFAULT_CAPACITY THEN MaxCapacity
                        ELSE DEFAULT_CAPACITY)

IndexMask == m_capacity - 1

\* position & IndexMask(), for a capacity that is a power of two
SlotIndex(position) == position % m_capacity

IdleMq == [pc |-> "idle", msg |-> Null, pos |-> 0, producerPos |-> 0,
           currentSize |-> 0, peak |-> 0]

\* MessageQueue::MessageQueue(capacity)
MQInit(capacity) ==
    /\ m_capacity = RoundUpPow2(IF capacity = 0 THEN DEFAULT_CAPACITY ELSE capacity)
    /\ slotSeq = [i \in 0..(MaxSlots - 1) |-> i]
    /\ slotMsg = [i \in 0..(MaxSlots - 1) |-> Null]
    /\ m_producerIndex = 0
    /\ m_consumerIndex = 0
    /\ m_peakUsage = 0
    /\ mq = [t \in Threads |-> IdleMq]
    /\ accepted = <<>>
    /\ returned = {}
    /\ nEnq = 0
    /\ nDeq = 0

StartCallMQ(t) ==
    /\ mq[t].pc = "idle"
    /\ calls < MaxCallsMQ
    /\ calls' = calls + 1

\* ---- TryEnqueue (MessageQueue.cpp 36-85)
\* if (!message) return false; positionToPublish = m_producerIndex.load()
TryEnqueue_Begin(t, message) ==
    /\ StartCallMQ(t)
    /\ mq' = [mq EXCEPT ![t] = IF message = Null THEN IdleMq
                               ELSE [IdleMq EXCEPT !.pc = "e_seq", !.msg = message,
                                                   !.pos = m_producerIndex]]
    /\ UNCHANGED <<m_capacity, slotSeq, slotMsg, m_producerIndex, m_consumerIndex,
                   m_peakUsage, accepted, returned, nEnq, nDeq>>
    /\ UNCHANGED <<domVars, rcuVars, mapVars, poolVars, pipeVars>>

\* if (slot.sequence.load() != sequenceExpected) return false
TryEnqueue_Seq(t) ==
    /\ mq[t].pc = "e_seq"
    /\ mq' = [mq EXCEPT ![t] = IF slotSeq[SlotIndex(mq[t].pos)] # mq[t].pos
                               THEN IdleMq
                               ELSE [mq[t] EXCEPT !.pc = "e_cas"]]
    /\ UNCHANGED <<m_capacity, slotSeq, slotMsg, m_producerIndex, m_consumerIndex,
                   m_peakUsage, accepted, returned, nEnq, nDeq>>
    /\ UNCHANGED <<domVars, calls, rcuVars, mapVars, poolVars, pipeVars>>

\* m_producerIndex.compare_exchange_strong(positionToPublish, positionToPublish + 1):
\* on failure return false.  On success the call is going to return true: the
\* message is the one accepted at this producer position.
TryEnqueue_Cas(t) ==
    /\ mq[t].pc = "e_cas"
    /\ IF m_producerIndex = mq[t].pos
       THEN /\ m_producerIndex' = mq[t].pos + 1
            /\ mq' = [mq EXCEPT ![t].pc = "e_write"]
            /\ accepted' = Append(accepted, mq[t].msg)
            /\ nEnq' = nEnq + 1
       ELSE /\ mq' = [mq EXCEPT ![t] = IdleMq]
            /\ UNCHANGED <<m_producerIndex, accepted, nEnq>>
    /\ UNCHANGED <<m_capacity, slotSeq, slotMsg, m_consumerIndex, m_peakUsage,
                   returned, nDeq>>
    /\ UNCHANGED <<domVars, calls, rcuVars, mapVars, poolVars, pipeVars>>

\* slot.message = message
TryEnqueue_Write(t) ==
    /\ mq[t].pc = "e_write"
    /\ slotMsg' = [slotMsg EXCEPT ![SlotIndex(mq[t].pos)] = mq[t].msg]
    /\ mq' = [mq EXCEPT ![t].pc = "e_publish"]
    /\ UNCHANGED <<m_capacity, slotSeq, m_producerIndex, m_consumerIndex,
                   m_peakUsage, accepted, returned, nEnq, nDeq>>
    /\ UNCHANGED <<domVars, calls, rcuVars, mapVars, poolVars, pipeVars>>

\* slot.sequence.store(positionToPublish + 1)
TryEnqueue_Publish(t) ==
    /\ mq[t].pc = "e_publish"
    /\ slotSeq' = [slotSeq EXCEPT ![SlotIndex(mq[t].pos)] = mq[t].pos + 1]
    /\ mq' = [mq EXCEPT ![t].pc = "e_sizep"]
    /\ UNCHANGED <<m_capacity, slotMsg, m_producerIndex, m_consumerIndex,
                   m_peakUsage, accepted, returned, nEnq, nDeq>>
    /\ UNCHANGED <<domVars, calls, rcuVars, mapVars, poolVars, pipeVars>>

\* Size() (MessageQueue.cpp 159-167): producerPos = m_producerIndex.load()
TryEnqueue_SizeProducer(t) ==
    /\ mq[t].pc = "e_sizep"
    /\ mq' = [mq EXCEPT ![t].pc = "e_sizec", ![t].producerPos = m_producerIndex]
    /\ UNCHANGED <<m_capacity, slotSeq, slotMsg, m_producerIndex, m_consumerIndex,
                   m_peakUsage, accepted, returned, nEnq, nDeq>>
    /\ UNCHANGED <<domVars, calls, rcuVars, mapVars, poolVars, pipeVars>>

\* the size computed from the two indices that Size() has loaded
SizeOf(producerPos, consumerPos) ==
    IF producerPos >= consumerPos THEN producerPos - consumerPos
    ELSE m_capacity - (consumerPos - producerPos)

\* consumerPos = m_consumerIndex.load(); currentSize = the difference
TryEnqueue_SizeConsumer(t) ==
    /\ mq[t].pc = "e_sizec"
    /\ mq' = [mq EXCEPT ![t].pc = "e_peak",
                        ![t].currentSize = SizeOf(mq[t].producerPos, m_consumerIndex)]
    /\ UNCHANGED <<m_capacity, slotSeq, slotMsg, m_producerIndex, m_consumerIndex,
                   m_peakUsage, accepted, returned, nEnq, nDeq>>
    /\ UNCHANGED <<domVars, calls, rcuVars, mapVars, poolVars, pipeVars>>

\* peak = m_peakUsage.load()
TryEnqueue_PeakLoad(t) ==
    /\ mq[t].pc = "e_peak"
    /\ mq' = [mq EXCEPT ![t].pc = "e_peakstore", ![t].peak = m_peakUsage]
    /\ UNCHANGED <<m_capacity, slotSeq, slotMsg, m_producerIndex, m_consumerIndex,
                   m_peakUsage, accepted, returned, nEnq, nDeq>>
    /\ UNCHANGED <<domVars, calls, rcuVars, mapVars, poolVars, pipeVars>>

\* if (currentSize > peak) m_peakUsage.store(currentSize); return true
TryEnqueue_PeakStore(t) ==
    /\ mq[t].pc = "e_peakstore"
    /\ m_peakUsage' = IF mq[t].currentSize > mq[t].peak THEN mq[t].currentSize
                      ELSE m_peakUsage
    /\ mq' = [mq EXCEPT ![t] = IdleMq]
    /\ UNCHANGED <<m_capacity, slotSeq, slotMsg, m_producerIndex, m_consumerIndex,
                   accepted, returned, nEnq, nDeq>>
    /\ UNCHANGED <<domVars, calls, rcuVars, mapVars, poolVars, pipeVars>>

\* ---- TryDequeue (MessageQueue.cpp 87-127)
\* positionToConsume = m_consumerIndex.load()
TryDequeue_Begin(t) ==
    /\ StartCallMQ(t)
    /\ mq' = [mq EXCEPT ![t] = [IdleMq EXCEPT !.pc = "d_seq", !.pos = m_consumerIndex]]
    /\ UNCHANGED <<m_capacity, slotSeq, slotMsg, m_producerIndex, m_consumerIndex,
                   m_peakUsage, accepted, returned, nEnq, nDeq>>
    /\ UNCHANGED <<domVars, rcuVars, mapVars, poolVars, pipeVars>>

\* if (slot.sequence.load() != positionToConsume + 1) return nullptr
TryDequeue_Seq(t) ==
    /\ mq[t].pc = "d_seq"
    /\ mq' = [mq EXCEPT ![t] = IF slotSeq[SlotIndex(mq[t].pos)] # mq[t].pos + 1
                               THEN IdleMq
                               ELSE [mq[t] EXCEPT !.pc = "d_cas"]]
    /\ UNCHANGED <<m_capacity, slotSeq, slotMsg, m_producerIndex, m_consumerIndex,
                   m_peakUsage, accepted, returned, nEnq, nDeq>>
    /\ UNCHANGED <<domVars, calls, rcuVars, mapVars, poolVars, pipeVars>>

\* m_consumerIndex.compare_exchange_strong(positionToConsume, positionToConsume + 1):
\* on failure return nullptr; on success the call is going to return a message
TryDequeue_Cas(t) ==
    /\ mq[t].pc = "d_cas"
    /\ IF m_consumerIndex = mq[t].pos
       THEN /\ m_consumerIndex' = mq[t].pos + 1
            /\ mq' = [mq EXCEPT ![t].pc = "d_read"]
            /\ nDeq' = nDeq + 1
       ELSE /\ mq' = [mq EXCEPT ![t] = IdleMq]
            /\ UNCHANGED <<m_consumerIndex, nDeq>>
    /\ UNCHANGED <<m_capacity, slotSeq, slotMsg, m_producerIndex, m_peakUsage,
                   accepted, returned, nEnq>>
    /\ UNCHANGED <<domVars, calls, rcuVars, mapVars, poolVars, pipeVars>>

\* message = slot.message
TryDequeue_Read(t) ==
    /\ mq[t].pc = "d_read"
    /\ mq' = [mq EXCEPT ![t].pc = "d_clear", ![t].msg = slotMsg[SlotIndex(mq[t].pos)]]
    /\ UNCHANGED <<m_capacity, slotSeq, slotMsg, m_producerIndex, m_consumerIndex,
                   m_peakUsage, accepted, returned, nEnq, nDeq>>
    /\ UNCHANGED <<domVars, calls, rcuVars, mapVars, poolVars, pipeVars>>

\* slot.message = nullptr
TryDequeue_Clear(t) ==
    /\ mq[t].pc = "d_clear"
    /\ slotMsg' = [slotMsg EXCEPT ![SlotIndex(mq[t].pos)] = Null]
    /\ mq' = [mq EXCEPT ![t].pc = "d_publish"]
    /\ UNCHANGED <<m_capacity, slotSeq, m_producerIndex, m_consumerIndex,
                   m_peakUsage, accepted, returned, nEnq, nDeq>>
    /\ UNCHANGED <<domVars, calls, rcuVars, mapVars, poolVars, pipeVars>>

\* slot.sequence.store(positionToConsume + m_capacity); return message
TryDequeue_Publish(t) ==
    /\ mq[t].pc = "d_publish"
    /\ slotSeq' = [slotSeq EXCEPT ![SlotIndex(mq[t].pos)] = mq[t].pos + m_capacity]
    /\ returned' = returned \cup {<<mq[t].pos, mq[t].msg>>}
    /\ mq' = [mq EXCEPT ![t] = IdleMq]
    /\ UNCHANGED <<m_capacity, slotMsg, m_producerIndex, m_consumerIndex,
                   m_peakUsage, accepted, nEnq, nDeq>>
    /\ UNCHANGED <<domVars, calls, rcuVars, mapVars, poolVars, pipeVars>>

(***************************************************************************)
(* MessagePool (Core/MessagePool.h, Core/MessagePool.cpp) and the state    *)
(* and reference count of Message (Message.h 40-48).  A slot and its       *)
(* Message share one name: <<"tls", t, i>> is messages[i] of the cache of  *)
(* thread t, <<"chunk", c, j>> is objects[j] of the c-th chunk.            *)
(***************************************************************************)
PoolThreads == 1..(NumLogThreads + NumWorkers)
CacheSlots == 0..(CACHE_SIZE - 1)

\* the size of the c-th chunk: INITIAL_CAPACITY, then GROWTH_FACTOR times the last
RECURSIVE ChunkSizeOf(_)
ChunkSizeOf(c) == IF c = 1 THEN INITIAL_CAPACITY
                  ELSE ChunkSizeOf(c - 1) * GROWTH_FACTOR

TlsMessage(t, i) == <<"tls", t, i>>
ChunkMessage(c, j) == <<"chunk", c, j>>
NoMessage == <<"null", 0, 0>>

TlsMessages == {TlsMessage(t, i) : t \in PoolThreads, i \in CacheSlots}
ChunkMessages ==
    UNION {{ChunkMessage(c, j) : j \in 0..(ChunkSizeOf(c) - 1)} : c \in 1..MaxChunks}
Messages == TlsMessages \cup ChunkMessages

Min(a, b) == IF a < b THEN a ELSE b

\* Level::Info, the level that ResetMessage stores (Level.h 10-19)
LevelInfo == 2
\* Level::Off
LevelOff == 6

IdlePool == [pc |-> "idle", msg |-> NoMessage, path |-> "none", numChunks |-> 0,
             start |-> 0, i |-> 0, j |-> 0, currentSize |-> 0, peak |-> 0,
             dangling |-> FALSE, result |-> NoMessage]

InPool(t) == pl[t].pc # "idle"

\* MessagePool::MessagePool(), followed by Acquire calls that returned every
\* cache slot of every thread (fill = 1) and also every slot of the first
\* chunk (fill = 2); st is the state those messages are in now: "Active" when
\* their holders have not released them, "Releasing" when they were released
\* with a reference still counted.
PoolInit(fill, st) ==
    LET Filled(m) == \/ fill >= 1 /\ m \in TlsMessages
                     \/ fill >= 2 /\ m[1] = "chunk" /\ m[2] = 1
    IN
    /\ used = [m \in Messages |-> Filled(m)]
    /\ tlsUsedCount = [t \in PoolThreads |-> IF fill >= 1 THEN CACHE_SIZE ELSE 0]
    /\ msgState = [m \in Messages |-> IF Filled(m) THEN st ELSE "Pooled"]
    /\ refCount = [m \in Messages |-> IF Filled(m) THEN 1 ELSE 0]
    /\ msgLevel = [m \in Messages |-> LevelInfo]
    /\ msgLogger = [m \in Messages |-> Filled(m)]
    /\ m_chunks = <<INITIAL_CAPACITY>>
    /\ m_chunkMutex = NoThread
    /\ m_size = IF fill >= 2 THEN INITIAL_CAPACITY ELSE 0
    /\ pool_capacity = INITIAL_CAPACITY
    /\ pool_peakUsage = IF fill >= 2 THEN Min(INITIAL_CAPACITY, ScanLimit) ELSE 0
    /\ m_nextChunkIndex = IF fill >= 2 THEN INITIAL_CAPACITY ELSE 0
    /\ pl = [t \in PoolThreads |-> IdlePool]
    /\ acquired = [m \in Messages |-> IF Filled(m) THEN 1 ELSE 0]
    /\ holders = [m \in Messages |-> IF Filled(m) /\ st = "Active" THEN 1 ELSE 0]

\* The pool after PoolInit(2, "Releasing") and two concurrent Acquire calls,
\* of threads 1 and 2, that grew the pool and both returned the first
\* Message of the new chunk: the slow path of one pushed the chunk
\* (MessagePool.cpp 98) and stored true into used[0] (102) after the medium
\* path of the other had claimed used[0] (47).
AliasedMessage == <<"chunk", 2, 0>>

PoolInitAliased ==
    LET Filled(m) == m \in TlsMessages \/ (m[1] = "chunk" /\ m[2] = 1) IN
    /\ used = [m \in Messages |-> Filled(m) \/ m = AliasedMessage]
    /\ tlsUsedCount = [t \in PoolThreads |-> CACHE_SIZE]
    /\ msgState = [m \in Messages |-> IF Filled(m) THEN "Releasing"
                                      ELSE IF m = AliasedMessage THEN "Active"
                                      ELSE "Pooled"]
    /\ refCount = [m \in Messages |-> IF Filled(m) \/ m = AliasedMessage THEN 1 ELSE 0]
    /\ msgLevel = [m \in Messages |-> LevelInfo]
    /\ msgLogger = [m \in Messages |-> Filled(m)]
    /\ m_chunks = <<INITIAL_CAPACITY, INITIAL_CAPACITY * GROWTH_FACTOR>>
    /\ m_chunkMutex = NoThread
    /\ m_size = INITIAL_CAPACITY + 2
    /\ pool_capacity = INITIAL_CAPACITY + INITIAL_CAPACITY * GROWTH_FACTOR
    /\ pool_peakUsage = INITIAL_CAPACITY + 2
    /\ m_nextChunkIndex = INITIAL_CAPACITY + 2
    /\ pl = [t \in PoolThreads |-> IF t \in {1, 2}
                                    THEN [IdlePool EXCEPT !.result = AliasedMessage]
                                    ELSE IdlePool]
    /\ acquired = [m \in Messages |-> IF Filled(m) THEN 1
                                      ELSE IF m = AliasedMessage THEN 2 ELSE 0]
    /\ holders = [m \in Messages |-> IF m = AliasedMessage THEN 2 ELSE 0]

\* ---- Acquire (MessagePool.cpp 13-114)
CallAcquire(t) == pl' = [pl EXCEPT ![t] = [IdlePool EXCEPT !.pc = "a_tls"]]

FreeCacheSlots(t) == {i \in CacheSlots : ~used[TlsMessage(t, i)]}

\* AcquireFromThreadLocalCache (MessagePool.cpp 225-238): the flags of a cache
\* are touched by their own thread only, so the loop is one step.  The frame
\* goes to pc found with the message, or to pc notFound.
AcquireFromThreadLocalCache(t, path, found, notFound) ==
    IF FreeCacheSlots(t) # {}
    THEN LET i == CHOOSE x \in FreeCacheSlots(t) : \A y \in FreeCacheSlots(t) : x <= y IN
         /\ used' = [used EXCEPT ![TlsMessage(t, i)] = TRUE]
         /\ tlsUsedCount' = [tlsUsedCount EXCEPT ![t] = @ + 1]
         /\ pl' = [pl EXCEPT ![t].pc = found, ![t].msg = TlsMessage(t, i),
                             ![t].path = path]
    ELSE /\ pl' = [pl EXCEPT ![t].pc = notFound, ![t].i = 1, ![t].j = 0]
         /\ UNCHANGED <<used, tlsUsedCount>>

\* FAST PATH: message = AcquireFromThreadLocalCache()
Acquire_Tls(t) ==
    /\ pl[t].pc = "a_tls"
    /\ AcquireFromThreadLocalCache(t, "tls", "a_state", "a_numchunks")
    /\ UNCHANGED <<msgVars, m_chunks, m_chunkMutex, poolStats, poolHist>>
    /\ UNCHANGED notPoolVars

\* MEDIUM PATH: numChunks = m_chunks.size(), read without the mutex
Acquire_NumChunks(t) ==
    /\ pl[t].pc = "a_numchunks"
    /\ pl' = [pl EXCEPT ![t].pc = "a_next", ![t].numChunks = Len(m_chunks)]
    /\ UNCHANGED <<used, tlsUsedCount, msgVars, m_chunks, m_chunkMutex, poolStats,
                   poolHist>>
    /\ UNCHANGED notPoolVars

\* startChunkIndex = m_nextChunkIndex.fetch_add(1) % numChunks
Acquire_NextIndex(t) ==
    /\ pl[t].pc = "a_next"
    /\ m_nextChunkIndex' = m_nextChunkIndex + 1
    /\ pl' = [pl EXCEPT ![t].pc = "a_scan", ![t].i = 0, ![t].j = 0,
                        ![t].start = m_nextChunkIndex % pl[t].numChunks,
                        ![t].dangling = FALSE]
    /\ UNCHANGED <<used, tlsUsedCount, msgVars, m_chunks, m_chunkMutex, m_size,
                   pool_capacity, pool_peakUsage, poolHist>>
    /\ UNCHANGED notPoolVars

\* one chunk.used[j].compare_exchange_strong(false, true) of the two loops
\* over the chunks and over the first scanLimit slots of a chunk.  The
\* reference chunk = m_chunks[chunkIndex] dangles when the vector has grown
\* or shrunk since it was taken, and m_chunks[chunkIndex] is out of range
\* when TryShrink has removed the chunk since numChunks was read: the access
\* then works on the memory as it was left or ends the thread.
Acquire_Scan(t) ==
    /\ pl[t].pc = "a_scan"
    /\ LET f == pl[t]
           chunkIndex == ((f.start + f.i) % f.numChunks) + 1
           scanLimit == Min(ChunkSizeOf(chunkIndex), ScanLimit)
           m == ChunkMessage(chunkIndex, f.j)
           stale == (f.dangling /\ f.j > 0) \/ chunkIndex > Len(m_chunks)
       IN
       \E outcome \in (IF stale THEN {"ok", "crash"} ELSE {"ok"}) :
         IF outcome = "crash"
         THEN /\ pl' = [pl EXCEPT ![t].pc = "crash"]
              /\ UNCHANGED used
         ELSE IF ~used[m]
         THEN /\ used' = [used EXCEPT ![m] = TRUE]
              /\ pl' = [pl EXCEPT ![t].pc = "a_sizeadd", ![t].msg = m,
                                  ![t].path = "medium"]
         ELSE /\ UNCHANGED used
              /\ pl' = [pl EXCEPT ![t] =
                         IF f.j + 1 < scanLimit
                         THEN [f EXCEPT !.j = f.j + 1]
                         ELSE IF f.i + 1 < f.numChunks
                         THEN [f EXCEPT !.i = f.i + 1, !.j = 0, !.dangling = FALSE]
                         ELSE [f EXCEPT !.pc = "a_lock"]]
    /\ UNCHANGED <<tlsUsedCount, msgVars, m_chunks, m_chunkMutex, poolStats, poolHist>>
    /\ UNCHANGED notPoolVars

\* m_size.fetch_add(1); the scan under the mutex does not update the peak
Acquire_SizeAdd(t) ==
    /\ pl[t].pc = "a_sizeadd"
    /\ m_size' = (m_size + 1) % SizeModulus
    /\ pl' = [pl EXCEPT ![t].pc = IF pl[t].path = "slowscan" THEN "a_state"
                                  ELSE "a_sizeload"]
    /\ UNCHANGED <<used, tlsUsedCount, msgVars, m_chunks, m_chunkMutex,
                   pool_capacity, pool_peakUsage, m_nextChunkIndex, poolHist>>
    /\ UNCHANGED notPoolVars

\* currentSize = m_size.load()
Acquire_SizeLoad(t) ==
    /\ pl[t].pc = "a_sizeload"
    /\ pl' = [pl EXCEPT ![t].pc = "a_peakload", ![t].currentSize = m_size]
    /\ UNCHANGED <<used, tlsUsedCount, msgVars, m_chunks, m_chunkMutex, poolStats,
                   poolHist>>
    /\ UNCHANGED notPoolVars

\* peak = m_peakUsage.load()
Acquire_PeakLoad(t) ==
    /\ pl[t].pc = "a_peakload"
    /\ pl' = [pl EXCEPT ![t].pc = "a_peakstore", ![t].peak = pool_peakUsage]
    /\ UNCHANGED <<used, tlsUsedCount, msgVars, m_chunks, m_chunkMutex, poolStats,
                   poolHist>>
    /\ UNCHANGED notPoolVars

\* if (currentSize > peak) m_peakUsage.store(currentSize)
Acquire_PeakStore(t) ==
    /\ pl[t].pc = "a_peakstore"
    /\ pool_peakUsage' = IF pl[t].currentSize > pl[t].peak THEN pl[t].currentSize
                         ELSE pool_peakUsage
    /\ pl' = [pl EXCEPT ![t].pc = "a_state"]
    /\ UNCHANGED <<used, tlsUsedCount, msgVars, m_chunks, m_chunkMutex, m_size,
                   pool_capacity, m_nextChunkIndex, poolHist>>
    /\ UNCHANGED notPoolVars

\* msg->state.store(MessageState::Active)
Acquire_State(t) ==
    /\ pl[t].pc = "a_state"
    /\ msgState' = [msgState EXCEPT ![pl[t].msg] = "Active"]
    /\ pl' = [pl EXCEPT ![t].pc = "a_ref"]
    /\ UNCHANGED <<used, tlsUsedCount, refCount, msgLevel, msgLogger, m_chunks,
                   m_chunkMutex, poolStats, poolHist>>
    /\ UNCHANGED notPoolVars

SlowPaths == {"slowtls", "slowscan", "grow"}

\* msg->refCount.store(1); return msg, which on the slow path unlocks the mutex
Acquire_Ref(t) ==
    /\ pl[t].pc = "a_ref"
    /\ refCount' = [refCount EXCEPT ![pl[t].msg] = 1]
    /\ m_chunkMutex' = IF pl[t].path \in SlowPaths THEN NoThread ELSE m_chunkMutex
    /\ acquired' = [acquired EXCEPT ![pl[t].msg] = @ + 1]
    /\ holders' = [holders EXCEPT ![pl[t].msg] = @ + 1]
    /\ pl' = [pl EXCEPT ![t] = [IdlePool EXCEPT !.result = pl[t].msg]]
    /\ UNCHANGED <<used, tlsUsedCount, msgState, msgLevel, msgLogger, m_chunks,
                   poolStats>>
    /\ UNCHANGED notPoolVars

\* SLOW PATH: std::lock_guard lock(m_chunkMutex);
\* message = AcquireFromThreadLocalCache()
Acquire_Lock(t) ==
    /\ pl[t].pc = "a_lock"
    /\ m_chunkMutex = NoThread
    /\ m_chunkMutex' = t
    /\ AcquireFromThreadLocalCache(t, "slowtls", "a_state", "a_slowscan")
    /\ UNCHANGED <<msgVars, m_chunks, poolStats, poolHist>>
    /\ UNCHANGED notPoolVars

\* one chunk.used[i].compare_exchange_strong(false, true) of the loops over
\* all chunks and all their slots, under the mutex
Acquire_SlowScan(t) ==
    /\ pl[t].pc = "a_slowscan"
    /\ LET f == pl[t]
           m == ChunkMessage(f.i, f.j)
       IN
       IF ~used[m]
       THEN /\ used' = [used EXCEPT ![m] = TRUE]
            /\ pl' = [pl EXCEPT ![t].pc = "a_sizeadd", ![t].msg = m,
                                ![t].path = "slowscan"]
       ELSE /\ UNCHANGED used
            /\ pl' = [pl EXCEPT ![t] =
                       IF f.j + 1 < m_chunks[f.i]
                       THEN [f EXCEPT !.j = f.j + 1]
                       ELSE IF f.i + 1 <= Len(m_chunks)
                       THEN [f EXCEPT !.i = f.i + 1, !.j = 0]
                       ELSE [f EXCEPT !.pc = "a_grow"]]
    /\ UNCHANGED <<tlsUsedCount, msgVars, m_chunks, m_chunkMutex, poolStats, poolHist>>
    /\ UNCHANGED notPoolVars

\* the frames that hold a reference into m_chunks across steps
HoldsChunkReference(f) == f.pc \in {"a_scan", "rm_fields", "rm_state", "rm_ref",
                                    "f_exchange"}

\* newChunkSize = m_chunks.back().size * GROWTH_FACTOR;
\* InitializeChunk(newChunkSize): new Message objects, every used flag false,
\* m_chunks.push_back
Acquire_Grow(t) ==
    /\ pl[t].pc = "a_grow"
    /\ Len(m_chunks) < MaxChunks
    /\ m_chunks' = Append(m_chunks, m_chunks[Len(m_chunks)] * GROWTH_FACTOR)
    /\ LET New(m) == m[1] = "chunk" /\ m[2] = Len(m_chunks) + 1 IN
       /\ used' = [m \in Messages |-> IF New(m) THEN FALSE ELSE used[m]]
       /\ msgState' = [m \in Messages |-> IF New(m) THEN "Pooled" ELSE msgState[m]]
       /\ refCount' = [m \in Messages |-> IF New(m) THEN 0 ELSE refCount[m]]
       /\ msgLevel' = [m \in Messages |-> IF New(m) THEN LevelInfo ELSE msgLevel[m]]
       /\ msgLogger' = [m \in Messages |-> IF New(m) THEN FALSE ELSE msgLogger[m]]
    /\ pl' = [u \in PoolThreads |->
                IF u = t THEN [pl[t] EXCEPT !.pc = "a_capadd"]
                ELSE IF HoldsChunkReference(pl[u])
                THEN [pl[u] EXCEPT !.dangling = TRUE]
                ELSE pl[u]]
    /\ UNCHANGED <<tlsUsedCount, m_chunkMutex, poolStats, poolHist>>
    /\ UNCHANGED notPoolVars

\* m_capacity.fetch_add(newChunkSize)
Acquire_CapacityAdd(t) ==
    /\ pl[t].pc = "a_capadd"
    /\ pool_capacity' = pool_capacity + m_chunks[Len(m_chunks)]
    /\ pl' = [pl EXCEPT ![t].pc = "a_usefirst"]
    /\ UNCHANGED <<used, tlsUsedCount, msgVars, m_chunks, m_chunkMutex, m_size,
                   pool_peakUsage, m_nextChunkIndex, poolHist>>
    /\ UNCHANGED notPoolVars

\* m_chunks.back().used[0].store(true)
Acquire_UseFirst(t) ==
    /\ pl[t].pc = "a_usefirst"
    /\ used' = [used EXCEPT ![ChunkMessage(Len(m_chunks), 0)] = TRUE]
    /\ pl' = [pl EXCEPT ![t].pc = "a_sizeadd", ![t].path = "grow",
                        ![t].msg = ChunkMessage(Len(m_chunks), 0)]
    /\ UNCHANGED <<tlsUsedCount, msgVars, m_chunks, m_chunkMutex, poolStats, poolHist>>
    /\ UNCHANGED notPoolVars

\* ---- Release(Message*) (MessagePool.cpp 125-151); a null message returns
CallRelease(t, m) ==
    /\ pl' = [pl EXCEPT ![t] = IF m = NoMessage THEN IdlePool
                               ELSE [IdlePool EXCEPT !.pc = "r_cas", !.msg = m]]
    /\ holders' = [n \in Messages |-> IF n = m /\ holders[n] > 0 THEN holders[n] - 1
                                      ELSE holders[n]]

\* a Release that goes on whatever the state of the message is
Release_CasAlways(t) ==
    /\ pl[t].pc = "r_cas"
    /\ msgState' = [msgState EXCEPT ![pl[t].msg] = "Releasing"]
    /\ pl' = [pl EXCEPT ![t].pc = "r_load"]
    /\ UNCHANGED <<used, tlsUsedCount, refCount, msgLevel, msgLogger, m_chunks,
                   m_chunkMutex, poolStats, poolHist>>
    /\ UNCHANGED notPoolVars

\* message->state.compare_exchange_strong(Active, Releasing); on failure return
Release_Cas(t) ==
    /\ pl[t].pc = "r_cas"
    /\ IF msgState[pl[t].msg] = "Active"
       THEN /\ msgState' = [msgState EXCEPT ![pl[t].msg] = "Releasing"]
            /\ pl' = [pl EXCEPT ![t].pc = "r_load"]
       ELSE /\ pl' = [pl EXCEPT ![t] = IdlePool]
            /\ UNCHANGED msgState
    /\ UNCHANGED <<used, tlsUsedCount, refCount, msgLevel, msgLogger, m_chunks,
                   m_chunkMutex, poolStats, poolHist>>
    /\ UNCHANGED notPoolVars

\* currentRefCount = message->refCount.load(); if (currentRefCount == 1) ...
Release_Load(t) ==
    /\ pl[t].pc = "r_load"
    /\ pl' = [pl EXCEPT ![t] = IF refCount[pl[t].msg] = 1
                               THEN [pl[t] EXCEPT !.pc = "r_store"]
                               ELSE IdlePool]
    /\ UNCHANGED <<used, tlsUsedCount, msgVars, m_chunks, m_chunkMutex, poolStats,
                   poolHist>>
    /\ UNCHANGED notPoolVars

\* message->refCount.store(0); FinalizeRelease(message)
Release_Store(t) ==
    /\ pl[t].pc = "r_store"
    /\ refCount' = [refCount EXCEPT ![pl[t].msg] = 0]
    /\ pl' = [pl EXCEPT ![t].pc = "f_state"]
    /\ UNCHANGED <<used, tlsUsedCount, msgState, msgLevel, msgLogger, m_chunks,
                   m_chunkMutex, poolStats, poolHist>>
    /\ UNCHANGED notPoolVars

\* ---- FinalizeRelease (MessagePool.cpp 153-191); a null message returns
CallFinalizeRelease(t, m) ==
    pl' = [pl EXCEPT ![t] = IF m = NoMessage THEN IdlePool
                            ELSE [IdlePool EXCEPT !.pc = "f_state", !.msg = m]]

\* state = message->state.load(); if (state != Releasing) return
Finalize_State(t) ==
    /\ pl[t].pc = "f_state"
    /\ pl' = [pl EXCEPT ![t] = IF msgState[pl[t].msg] # "Releasing" THEN IdlePool
                               ELSE [pl[t] EXCEPT !.pc = "f_find"]]
    /\ UNCHANGED <<used, tlsUsedCount, msgVars, m_chunks, m_chunkMutex, poolStats,
                   poolHist>>
    /\ UNCHANGED notPoolVars

\* TryReleaseToThreadLocalCache (MessagePool.cpp 240-260): the range check
\* against the cache of the calling thread; then the loop that looks for the
\* chunk whose objects contain the message.  A message of another thread's
\* cache is in neither and FinalizeRelease returns.
Finalize_Find(t) ==
    /\ pl[t].pc = "f_find"
    /\ LET m == pl[t].msg IN
       pl' = [pl EXCEPT ![t] =
                IF m[1] = "tls" /\ m[2] = t
                THEN [pl[t] EXCEPT !.pc = "rm_fields", !.path = "tls"]
                ELSE IF m[1] = "chunk" /\ m[2] <= Len(m_chunks)
                THEN [pl[t] EXCEPT !.pc = "rm_fields", !.path = "chunk",
                                   !.dangling = FALSE]
                ELSE IdlePool]
    /\ UNCHANGED <<used, tlsUsedCount, msgVars, m_chunks, m_chunkMutex, poolStats,
                   poolHist>>
    /\ UNCHANGED notPoolVars

\* a ResetMessage that leaves the plain fields as they are
ResetMessage_KeepFields(t) ==
    /\ pl[t].pc = "rm_fields"
    /\ pl' = [pl EXCEPT ![t].pc = "rm_state"]
    /\ UNCHANGED <<used, tlsUsedCount, msgVars, m_chunks, m_chunkMutex,
                   poolStats, poolHist>>
    /\ UNCHANGED notPoolVars

\* ---- ResetMessage (MessagePool.cpp 193-207): the plain fields
ResetMessage_Fields(t) ==
    /\ pl[t].pc = "rm_fields"
    /\ msgLevel' = [msgLevel EXCEPT ![pl[t].msg] = LevelInfo]
    /\ msgLogger' = [msgLogger EXCEPT ![pl[t].msg] = FALSE]
    /\ pl' = [pl EXCEPT ![t].pc = "rm_state"]
    /\ UNCHANGED <<used, tlsUsedCount, msgState, refCount, m_chunks, m_chunkMutex,
                   poolStats, poolHist>>
    /\ UNCHANGED notPoolVars

\* message->state.store(MessageState::Pooled)
ResetMessage_State(t) ==
    /\ pl[t].pc = "rm_state"
    /\ msgState' = [msgState EXCEPT ![pl[t].msg] = "Pooled"]
    /\ pl' = [pl EXCEPT ![t].pc = "rm_ref"]
    /\ UNCHANGED <<used, tlsUsedCount, refCount, msgLevel, msgLogger, m_chunks,
                   m_chunkMutex, poolStats, poolHist>>
    /\ UNCHANGED notPoolVars

\* message->refCount.store(0)
ResetMessage_Ref(t) ==
    /\ pl[t].pc = "rm_ref"
    /\ refCount' = [refCount EXCEPT ![pl[t].msg] = 0]
    /\ pl' = [pl EXCEPT ![t].pc = IF pl[t].path = "tls" THEN "f_tls" ELSE "f_exchange"]
    /\ UNCHANGED <<used, tlsUsedCount, msgState, msgLevel, msgLogger, m_chunks,
                   m_chunkMutex, poolStats, poolHist>>
    /\ UNCHANGED notPoolVars

\* s_localCache.used[index].store(false); s_localCache.usedCount.fetch_sub(1)
Finalize_Tls(t) ==
    /\ pl[t].pc = "f_tls"
    /\ used' = [used EXCEPT ![pl[t].msg] = FALSE]
    /\ tlsUsedCount' = [tlsUsedCount EXCEPT ![t] = (@ + SizeModulus - 1) % SizeModulus]
    /\ acquired' = [acquired EXCEPT ![pl[t].msg] = 0]
    /\ pl' = [pl EXCEPT ![t] = IdlePool]
    /\ UNCHANGED <<msgVars, m_chunks, m_chunkMutex, poolStats, holders>>
    /\ UNCHANGED notPoolVars

\* chunk.used[index].exchange(false), through the reference chunk taken in
\* the loop: it dangles when the vector has grown since
Finalize_Exchange(t) ==
    /\ pl[t].pc = "f_exchange"
    /\ \E outcome \in (IF pl[t].dangling THEN {"ok", "crash"} ELSE {"ok"}) :
         IF outcome = "crash"
         THEN /\ pl' = [pl EXCEPT ![t].pc = "crash"]
              /\ UNCHANGED <<used, acquired>>
         ELSE /\ used' = [used EXCEPT ![pl[t].msg] = FALSE]
              /\ acquired' = [acquired EXCEPT ![pl[t].msg] = 0]
              /\ pl' = [pl EXCEPT ![t] = IF used[pl[t].msg]
                                         THEN [pl[t] EXCEPT !.pc = "f_sizesub"]
                                         ELSE IdlePool]
    /\ UNCHANGED <<tlsUsedCount, msgVars, m_chunks, m_chunkMutex, poolStats, holders>>
    /\ UNCHANGED notPoolVars

\* m_size.fetch_sub(1)
Finalize_SizeSub(t) ==
    /\ pl[t].pc = "f_sizesub"
    /\ m_size' = (m_size + SizeModulus - 1) % SizeModulus
    /\ pl' = [pl EXCEPT ![t] = IdlePool]
    /\ UNCHANGED <<used, tlsUsedCount, msgVars, m_chunks, m_chunkMutex,
                   pool_capacity, pool_peakUsage, m_nextChunkIndex, poolHist>>
    /\ UNCHANGED notPoolVars

\* ---- TryShrink (MessagePool.cpp 270-305); threshold is given in
\* ten-thousandths.  std::lock_guard lock(m_chunkMutex)
Shrink_Lock(t) ==
    /\ pl[t].pc = "s_lock"
    /\ m_chunkMutex = NoThread
    /\ m_chunkMutex' = t
    /\ pl' = [pl EXCEPT ![t].pc = "s_usage"]
    /\ UNCHANGED <<used, tlsUsedCount, msgVars, m_chunks, poolStats, poolHist>>
    /\ UNCHANGED notPoolVars

\* usagePercentage = GetUsagePercentage() (MessagePool.h 30-34);
\* if (usagePercentage > threshold * 100.0f || m_chunks.size() <= 1) return
Shrink_Usage(t, threshold) ==
    /\ pl[t].pc = "s_usage"
    /\ LET over == pool_capacity > 0 /\ m_size * 10000 > threshold * pool_capacity IN
       IF over \/ Len(m_chunks) <= 1
       THEN /\ pl' = [pl EXCEPT ![t] = IdlePool]
            /\ m_chunkMutex' = NoThread
       ELSE /\ pl' = [pl EXCEPT ![t].pc = "s_check", ![t].j = 0]
            /\ UNCHANGED m_chunkMutex
    /\ UNCHANGED <<used, tlsUsedCount, msgVars, m_chunks, poolStats, poolHist>>
    /\ UNCHANGED notPoolVars

\* while (m_chunks.size() > 1): one lastChunk.used[i].load() of the loop that
\* looks for a used slot in the last chunk; a used slot ends TryShrink
Shrink_Check(t) ==
    /\ pl[t].pc = "s_check"
    /\ LET last == Len(m_chunks)
           j == pl[t].j
       IN
       IF last <= 1 \/ used[ChunkMessage(last, j)]
       THEN /\ pl' = [pl EXCEPT ![t] = IdlePool]
            /\ m_chunkMutex' = NoThread
       ELSE /\ pl' = [pl EXCEPT ![t] = IF j + 1 < m_chunks[last]
                                       THEN [@ EXCEPT !.j = j + 1]
                                       ELSE [@ EXCEPT !.pc = "s_pop"]]
            /\ UNCHANGED m_chunkMutex
    /\ UNCHANGED <<used, tlsUsedCount, msgVars, m_chunks, poolStats, poolHist>>
    /\ UNCHANGED notPoolVars

\* the chunk that the reference held by frame f refers to, 0 when it holds none
ChunkOf(f) == IF f.pc = "a_scan" THEN ((f.start + f.i) % f.numChunks) + 1
              ELSE IF HoldsChunkReference(f) /\ f.path = "chunk" THEN f.msg[2]
              ELSE 0

\* m_chunks.pop_back(), which frees the Messages and the flags of the chunk
\* and leaves the other chunks where they are; m_capacity.fetch_sub(removedSize)
Shrink_Pop(t) ==
    /\ pl[t].pc = "s_pop"
    /\ m_chunks' = SubSeq(m_chunks, 1, Len(m_chunks) - 1)
    /\ pool_capacity' = pool_capacity - m_chunks[Len(m_chunks)]
    /\ pl' = [u \in PoolThreads |->
                IF u = t THEN [pl[t] EXCEPT !.pc = "s_check", !.j = 0]
                ELSE IF ChunkOf(pl[u]) = Len(m_chunks)
                THEN [pl[u] EXCEPT !.dangling = TRUE]
                ELSE pl[u]]
    /\ UNCHANGED <<used, tlsUsedCount, msgVars, m_chunkMutex, m_size,
                   pool_peakUsage, m_nextChunkIndex, poolHist>>
    /\ UNCHANGED notPoolVars

\* ---- callers of the pool: Acquire, and Release of a message that an Acquire
\* has returned and that has not been passed to Release since
StartCallPool(t) ==
    /\ ~InPool(t)
    /\ calls < MaxCallsPool
    /\ calls' = calls + 1

Pool_Acquire(t) ==
    /\ StartCallPool(t)
    /\ CallAcquire(t)
    /\ UNCHANGED <<used, tlsUsedCount, msgVars, m_chunks, m_chunkMutex, poolStats,
                   poolHist>>
    /\ UNCHANGED <<domVars, rcuVars, mapVars, mqVars, pipeVars>>

Pool_Release(t, m) ==
    /\ StartCallPool(t)
    /\ holders[m] > 0
    /\ CallRelease(t, m)
    /\ UNCHANGED <<used, tlsUsedCount, msgVars, m_chunks, m_chunkMutex, poolStats,
                   acquired>>
    /\ UNCHANGED <<domVars, rcuVars, mapVars, mqVars, pipeVars>>

(***************************************************************************)
(* Logger (Logger.cpp) and LoggerThreadPool (Core/LoggerThreadPool.cpp):   *)
(* the threads that log and the workers, one queue per worker.             *)
(***************************************************************************)
LogThreads == 1..NumLogThreads
Workers == (NumLogThreads + 1)..(NumLogThreads + NumWorkers)

\* the index of the queue of worker w in m_queues
QueueOf(w) == w - NumLogThreads - 1
Queues == 0..(NumWorkers - 1)

\* the sinks of the logger, in the order of the sink list
Sinks == 1..NumSinks

\* the worker thread that LoggerThreadPool starts for queue q
WorkerOf(q) == q + NumLogThreads + 1

\* the threads that call Flush, Shutdown and Resize
Controllers == 1..NumControllers

\* a record is <<the number of the Log call, its level, the calling thread>>
NoRec == <<0, 0, 0>>

IdleLog == [pc |-> "idle", msg |-> NoMessage, level |-> 0, queueIndex |-> 0,
            rec |-> NoRec]
IdleWorker == [pc |-> "wait", msg |-> NoMessage, sink |-> 0, cleanup |-> FALSE]
IdleCtl == [pc |-> "idle", op |-> "none", wait |-> FALSE, flush |-> FALSE,
            i |-> 0, pending |-> 0, n |-> 0, flushRet |-> "done",
            sdRet |-> "done", timedOut |-> FALSE, sdReturned |-> FALSE,
            owed |-> {}, ret |-> "none", saRet |-> "done", seen |-> "none",
            threw |-> FALSE]

\* LoggerThreadPool::LoggerThreadPool (LoggerThreadPool.cpp 10-24) and a
\* Logger constructed with the given level.  With running false the thread
\* pool has been shut down since: m_running is false, the queues are empty
\* and the workers have left WorkerFunction.
ThreadPoolWith(threadCount, running, logging, level) ==
    /\ m_running = running
    /\ m_flushing = FALSE
    /\ messageQueue = [q \in Queues |-> <<>>]
    /\ pendingMessages = [q \in Queues |-> 0]
    /\ m_nextQueueIndex = 0
    /\ m_level = level
    /\ m_droppedMessages = 0
    /\ m_totalProcessed = 0
    /\ lg = logging
    /\ wk = [w \in Workers |->
               IF QueueOf(w) >= threadCount THEN [IdleWorker EXCEPT !.pc = "none"]
               ELSE IF running THEN IdleWorker
               ELSE [IdleWorker EXCEPT !.pc = "exited"]]
    /\ processed = {}
    /\ m_queues = threadCount
    /\ m_workers = threadCount
    /\ joinable = [w \in Workers |-> running /\ QueueOf(w) < threadCount]
    /\ m_resizeMutex = NoThread
    /\ ct = [c \in Controllers |-> IdleCtl]
    /\ msgRec = [m \in Messages |-> NoRec]
    /\ nPushed = 0
    /\ pushedRecs = {}
    /\ logTrue = {}
    /\ sinkLog = <<>>

\* the same with a Logger of level Info
ThreadPoolStart(threadCount, running, logging) ==
    ThreadPoolWith(threadCount, running, logging, LevelInfo)

\* no thread is inside Log
ThreadPoolInit(threadCount, running) ==
    ThreadPoolStart(threadCount, running, [t \in LogThreads |-> IdleLog])

\* the statics of Initialize before any call: initFlag clear, initResult Ok()
OnceClear == [flag |-> "clear", result |-> "Ok", bodies |-> 0]

\* a run that was started with no particular input
NoInput == <<>>

\* '\0'
NUL == 0
Chars == 1..NumChars

\* the strings that are passed to Store and Compare
Strings == UNION {[1..n -> Chars] : n \in 0..MAX_LENGTH}

IdleStr == [pc |-> "idle", arg |-> <<>>, len |-> 0, i |-> 0, out |-> <<>>,
            result |-> <<"none">>]

\* the name that the constructor of LogManager stores (LogManager.cpp 213)
MainName == <<1, 1>>

\* AtomicString(std::string_view str): Store(str) (AtomicString.cpp 12-15)
StrInit ==
    /\ m_buffer = [k \in 0..(MAX_LENGTH - 1) |->
                     IF k < Len(MainName) THEN MainName[k + 1] ELSE NUL]
    /\ m_length = Len(MainName)
    /\ str = [t \in Threads |-> IdleStr]
    /\ written = {MainName}

\* LogManager after Initialize: state Running, with its thread pool
ManagerRunning ==
    /\ StrInit
    /\ m_state = "Running"
    /\ m_threadPool = TRUE
    /\ teardowns = 0
    /\ deletes = 0
    /\ once = [flag |-> "done", result |-> "Ok", bodies |-> 1]
    /\ m_loggerMap = TRUE
    /\ loggerSinks = [p \in Ptrs |-> <<>>]

ManagerInit ==
    /\ ManagerRunning
    /\ drawn = NoInput

PipeInit(running) ==
    /\ ThreadPoolInit(NumWorkers, running)
    /\ ManagerInit

\* the levels that the logging threads pass to Log: one below the level of
\* the logger, two that pass the filter, and Level::Off
LogLevels == {LevelInfo - 1, LevelInfo, LevelInfo + 1, LevelOff}

StartCallPipe(t, maxCalls) ==
    /\ lg[t].pc = "idle"
    /\ ~InPool(t)
    /\ calls < maxCalls
    /\ calls' = calls + 1

\* a Log that does not compare the level with the level of the logger
Log_CallAnyLevel(t, level, msgEmpty, maxCalls) ==
    /\ StartCallPipe(t, maxCalls)
    /\ IF msgEmpty \/ level >= LevelOff
       THEN UNCHANGED <<lg, pl>>
       ELSE /\ lg' = [lg EXCEPT ![t] = [IdleLog EXCEPT !.pc = "l_fields",
                                                       !.level = level,
                                                       !.rec = <<calls + 1, level, t>>]]
            /\ CallAcquire(t)
    /\ UNCHANGED <<used, tlsUsedCount, msgVars, m_chunks, m_chunkMutex, poolStats,
                   poolHist>>
    /\ UNCHANGED <<m_running, m_flushing, messageQueue, pendingMessages,
                   m_nextQueueIndex, m_level, m_droppedMessages, m_totalProcessed,
                   wk, processed>>
    /\ UNCHANGED <<domVars, rcuVars, mapVars, mqVars>>
    /\ UNCHANGED <<ctlVars, mgrVars, pipeHist>>

\* ---- Logger::Log (Logger.cpp 16-27): the filter, then CreateMessage
\* (Logger.cpp 70-88), which calls Acquire
Log_Call(t, level, msgEmpty, maxCalls) ==
    /\ StartCallPipe(t, maxCalls)
    /\ IF msgEmpty \/ level < m_level \/ level >= LevelOff
       THEN UNCHANGED <<lg, pl>>
       ELSE /\ lg' = [lg EXCEPT ![t] = [IdleLog EXCEPT !.pc = "l_fields",
                                                       !.level = level,
                                                       !.rec = <<calls + 1, level, t>>]]
            /\ CallAcquire(t)
    /\ UNCHANGED <<used, tlsUsedCount, msgVars, m_chunks, m_chunkMutex, poolStats,
                   poolHist>>
    /\ UNCHANGED <<m_running, m_flushing, messageQueue, pendingMessages,
                   m_nextQueueIndex, m_level, m_droppedMessages, m_totalProcessed,
                   wk, processed>>
    /\ UNCHANGED <<domVars, rcuVars, mapVars, mqVars>>
    /\ UNCHANGED <<ctlVars, mgrVars, pipeHist>>

\* Log in a run of at most MaxCallsPipe calls
Log_Begin(t, level, msgEmpty) == Log_Call(t, level, msgEmpty, MaxCallsPipe)

\* Acquire has returned poolMessage: the plain fields of the message are
\* written (Logger.cpp 79-85); Acquire never returns null
Log_Fields(t) ==
    /\ lg[t].pc = "l_fields"
    /\ ~InPool(t)
    /\ LET m == pl[t].result IN
       /\ msgLevel' = [msgLevel EXCEPT ![m] = lg[t].level]
       /\ msgLogger' = [msgLogger EXCEPT ![m] = TRUE]
       /\ msgRec' = [msgRec EXCEPT ![m] = lg[t].rec]
       /\ lg' = [lg EXCEPT ![t].pc = "l_getpool", ![t].msg = m]
    /\ UNCHANGED <<used, tlsUsedCount, msgState, refCount, m_chunks, m_chunkMutex,
                   poolStats, pl, poolHist>>
    /\ UNCHANGED <<m_running, m_flushing, messageQueue, pendingMessages,
                   m_nextQueueIndex, m_level, m_droppedMessages, m_totalProcessed,
                   wk, processed>>
    /\ UNCHANGED <<domVars, calls, rcuVars, mapVars, mqVars>>
    /\ UNCHANGED <<ctlVars, mgrVars, nPushed, pushedRecs, logTrue, sinkLog>>

\* Logger::EnqueueMessage (Logger.cpp 118) calls LogManager::GetThreadPool
\* (LogManager.cpp 483-487): EnsureThreadPoolInitialized, then
\* *m_threadPool.load().  A manager that is Initializing or Running has its
\* thread pool or gets one; in any other state a null m_threadPool stays null
\* and is dereferenced, which ends the thread.
Log_GetThreadPool(t) ==
    /\ lg[t].pc = "l_getpool"
    /\ lg' = [lg EXCEPT ![t].pc = IF m_threadPool \/ m_state \in {"Initializing", "Running"}
                                  THEN "l_running" ELSE "crash"]
    /\ UNCHANGED <<m_running, m_flushing, messageQueue, pendingMessages,
                   m_nextQueueIndex, m_level, m_droppedMessages, m_totalProcessed,
                   wk, processed>>
    /\ UNCHANGED <<domVars, calls, rcuVars, mapVars, mqVars, poolVars>>
    /\ UNCHANGED <<ctlVars, mgrVars, pipeHist>>

\* EnqueueMessage runs on a LoggerThreadPool that LogManager::Shutdown has
\* deleted (LogManager.cpp 320): its reads of m_running, m_flushing and
\* m_queues either see the memory as it was left, which is what the steps
\* below do, or end the thread, which is this step.
Enqueue_Deleted(t) ==
    /\ lg[t].pc \in {"l_running", "l_flushing", "l_select", "l_push"}
    /\ deletes > 0
    /\ lg' = [lg EXCEPT ![t].pc = "crash"]
    /\ UNCHANGED <<m_running, m_flushing, messageQueue, pendingMessages,
                   m_nextQueueIndex, m_level, m_droppedMessages, m_totalProcessed,
                   wk, processed>>
    /\ UNCHANGED <<domVars, calls, rcuVars, mapVars, mqVars, poolVars>>
    /\ UNCHANGED <<ctlVars, mgrVars, pipeHist>>

\* ---- LoggerThreadPool::EnqueueMessage (LoggerThreadPool.cpp 121-151); one
\* load of the condition per step.  When the condition holds the message is
\* released and Logger::EnqueueMessage goes on to count it.
EnqueueCheck(t, ok, next) ==
    /\ IF ok
       THEN /\ lg' = [lg EXCEPT ![t].pc = next]
            /\ UNCHANGED <<pl, holders>>
       ELSE /\ lg' = [lg EXCEPT ![t].pc = "l_total"]
            /\ CallRelease(t, lg[t].msg)
    /\ UNCHANGED <<used, tlsUsedCount, msgVars, m_chunks, m_chunkMutex, poolStats,
                   acquired>>
    /\ UNCHANGED <<m_running, m_flushing, messageQueue, pendingMessages,
                   m_nextQueueIndex, m_level, m_droppedMessages, m_totalProcessed,
                   wk, processed>>
    /\ UNCHANGED <<domVars, calls, rcuVars, mapVars, mqVars>>
    /\ UNCHANGED <<ctlVars, mgrVars, pipeHist>>

\* !m_running.load()
Enqueue_Running(t) ==
    /\ lg[t].pc = "l_running"
    /\ EnqueueCheck(t, m_running, "l_flushing")

\* m_flushing.load()
Enqueue_Flushing(t) ==
    /\ lg[t].pc = "l_flushing"
    /\ EnqueueCheck(t, ~m_flushing, "l_active")

\* !message->IsActive()
Enqueue_IsActive(t) ==
    /\ lg[t].pc = "l_active"
    /\ EnqueueCheck(t, msgState[lg[t].msg] = "Active", "l_addref")

\* message->AddRef()
Enqueue_AddRef(t) ==
    /\ lg[t].pc = "l_addref"
    /\ refCount' = [refCount EXCEPT ![lg[t].msg] = (@ + 1) % RefModulus]
    /\ lg' = [lg EXCEPT ![t].pc = "l_select"]
    /\ UNCHANGED <<used, tlsUsedCount, msgState, msgLevel, msgLogger, m_chunks,
                   m_chunkMutex, poolStats, pl, poolHist>>
    /\ UNCHANGED <<m_running, m_flushing, messageQueue, pendingMessages,
                   m_nextQueueIndex, m_level, m_droppedMessages, m_totalProcessed,
                   wk, processed>>
    /\ UNCHANGED <<domVars, calls, rcuVars, mapVars, mqVars>>
    /\ UNCHANGED <<ctlVars, mgrVars, pipeHist>>

\* SelectQueue (LoggerThreadPool.cpp 164-171)
Enqueue_Select(t) ==
    /\ lg[t].pc = "l_select"
    /\ IF m_queues = 1
       THEN /\ lg' = [lg EXCEPT ![t].pc = "l_push", ![t].queueIndex = 0]
            /\ UNCHANGED m_nextQueueIndex
       ELSE /\ lg' = [lg EXCEPT ![t].pc = "l_push",
                                ![t].queueIndex = m_nextQueueIndex % m_queues]
            /\ m_nextQueueIndex' = (m_nextQueueIndex + 1) % SizeModulus
    /\ UNCHANGED <<m_running, m_flushing, messageQueue, pendingMessages, m_level,
                   m_droppedMessages, m_totalProcessed, wk, processed>>
    /\ UNCHANGED <<domVars, calls, rcuVars, mapVars, mqVars, poolVars>>
    /\ UNCHANGED <<ctlVars, mgrVars, pipeHist>>

\* QueueItem::operator< (LoggerThreadPool.h 43): priorities only.  An item is
\* <<message, priority, the number of the push that added it>>.
Less(x, y) == x[2] < y[2]

\* std::priority_queue keeps its items as a binary heap in a vector; push is
\* push_back and std::push_heap, pop is std::pop_heap and pop_back.  The
\* operators below are libstdc++'s __push_heap and __adjust_heap on the
\* 0-based positions of the vector (position i is element i + 1 here).
RECURSIVE PushHeap(_, _, _, _)
PushHeap(h, hole, top, value) ==
    IF hole > top /\ Less(h[((hole - 1) \div 2) + 1], value)
    THEN PushHeap([h EXCEPT ![hole + 1] = h[((hole - 1) \div 2) + 1]],
                  (hole - 1) \div 2, top, value)
    ELSE [h EXCEPT ![hole + 1] = value]

\* the loop of __adjust_heap: the hole moves down to the larger child, the
\* right one when the two compare equal; the result is <<heap, hole>>
RECURSIVE SiftDown(_, _, _)
SiftDown(h, hole, len) ==
    IF hole < (len - 1) \div 2
    THEN LET right == 2 * (hole + 1)
             child == IF Less(h[right + 1], h[right]) THEN right - 1 ELSE right
         IN SiftDown([h EXCEPT ![hole + 1] = h[child + 1]], child, len)
    ELSE <<h, hole>>

AdjustHeap(h, len, value) ==
    LET r == SiftDown(h, 0, len)
        h1 == r[1]
        hole == r[2]
    IN IF len % 2 = 0 /\ hole = (len - 2) \div 2
       THEN PushHeap([h1 EXCEPT ![hole + 1] = h1[2 * (hole + 1)]],
                     2 * (hole + 1) - 1, 0, value)
       ELSE PushHeap(h1, hole, 0, value)

\* messageQueue.push(item)
HeapPush(h, item) == PushHeap(Append(h, item), Len(h), 0, item)

\* messageQueue.pop(); messageQueue.top() is the first element
HeapPop(h) ==
    IF Len(h) <= 1 THEN <<>>
    ELSE AdjustHeap(SubSeq(h, 1, Len(h) - 1), Len(h) - 1, h[Len(h)])

\* the mutex of queue q is held by its worker from the start of the final
\* clean-up loop (LoggerThreadPool.cpp 237) until WorkerFunction returns
QueueLocked(q) ==
    wk[WorkerOf(q)].pc = "w_cleanup" \/ wk[WorkerOf(q)].cleanup

\* under the mutex of the queue: messageQueue.push({message, priority});
\* ++pendingMessages; cv.notify_one()
Enqueue_Push(t) ==
    /\ lg[t].pc = "l_push"
    /\ ~QueueLocked(lg[t].queueIndex)
    /\ LET q == lg[t].queueIndex IN
       /\ messageQueue' = [messageQueue EXCEPT
                             ![q] = HeapPush(@, <<lg[t].msg, msgLevel[lg[t].msg],
                                                  nPushed + 1>>)]
       /\ pendingMessages' = [pendingMessages EXCEPT ![q] = @ + 1]
    /\ nPushed' = nPushed + 1
    /\ pushedRecs' = pushedRecs \cup {lg[t].rec}
    /\ lg' = [lg EXCEPT ![t].pc = "l_total"]
    /\ UNCHANGED <<m_running, m_flushing, m_nextQueueIndex, m_level,
                   m_droppedMessages, m_totalProcessed, wk, processed>>
    /\ UNCHANGED <<domVars, calls, rcuVars, mapVars, mqVars, poolVars>>
    /\ UNCHANGED <<ctlVars, mgrVars, msgRec, logTrue, sinkLog>>

\* Logger::EnqueueMessage (Logger.cpp 111-120): m_totalProcessed.fetch_add(1);
\* Log returns true
Log_Total(t) ==
    /\ lg[t].pc = "l_total"
    /\ ~InPool(t)
    /\ m_totalProcessed' = m_totalProcessed + 1
    /\ logTrue' = logTrue \cup {lg[t].rec}
    /\ lg' = [lg EXCEPT ![t] = IdleLog]
    /\ UNCHANGED <<m_running, m_flushing, messageQueue, pendingMessages,
                   m_nextQueueIndex, m_level, m_droppedMessages, wk, processed>>
    /\ UNCHANGED <<domVars, calls, rcuVars, mapVars, mqVars, poolVars>>
    /\ UNCHANGED <<ctlVars, mgrVars, msgRec, nPushed, pushedRecs, sinkLog>>

\* ---- LoggerThreadPool::WorkerFunction (LoggerThreadPool.cpp 180-251)
\* cv.wait until the queue is not empty or the pool is neither running nor
\* flushing; break when it is empty; otherwise top, pop, --pendingMessages
Worker_Wait(w) ==
    /\ wk[w].pc = "wait"
    /\ ~InPool(w)
    /\ LET q == QueueOf(w) IN
       /\ messageQueue[q] # <<>> \/ (~m_running /\ ~m_flushing)
       /\ IF messageQueue[q] = <<>>
          THEN /\ wk' = [wk EXCEPT ![w] = [IdleWorker EXCEPT !.pc = "w_exit"]]
               /\ UNCHANGED <<messageQueue, pendingMessages>>
          ELSE /\ wk' = [wk EXCEPT ![w] = [IdleWorker EXCEPT
                                             !.pc = "w_active",
                                             !.msg = messageQueue[q][1][1]]]
               /\ messageQueue' = [messageQueue EXCEPT ![q] = HeapPop(@)]
               /\ pendingMessages' = [pendingMessages EXCEPT ![q] = @ - 1]
    /\ UNCHANGED <<m_running, m_flushing, m_nextQueueIndex, m_level,
                   m_droppedMessages, m_totalProcessed, lg, processed>>
    /\ UNCHANGED <<domVars, calls, rcuVars, mapVars, mqVars, poolVars>>
    /\ UNCHANGED <<ctlVars, mgrVars, pipeHist>>

\* if (hasItem && item.message && item.message->IsActive())
Worker_IsActive(w) ==
    /\ wk[w].pc = "w_active"
    /\ wk' = [wk EXCEPT ![w] = IF msgState[wk[w].msg] = "Active"
                               THEN [wk[w] EXCEPT !.pc = "w_logger"]
                               ELSE IdleWorker]
    /\ UNCHANGED <<m_running, m_flushing, messageQueue, pendingMessages,
                   m_nextQueueIndex, m_level, m_droppedMessages, m_totalProcessed,
                   lg, processed>>
    /\ UNCHANGED <<domVars, calls, rcuVars, mapVars, mqVars, poolVars>>
    /\ UNCHANGED <<ctlVars, mgrVars, pipeHist>>

\* if (item.message->logger) item.message->logger->ProcessMessage(item.message)
Worker_Logger(w) ==
    /\ wk[w].pc = "w_logger"
    /\ wk' = [wk EXCEPT ![w].pc = IF msgLogger[wk[w].msg] THEN "p_active"
                                  ELSE "w_releaseref"]
    /\ UNCHANGED <<m_running, m_flushing, messageQueue, pendingMessages,
                   m_nextQueueIndex, m_level, m_droppedMessages, m_totalProcessed,
                   lg, processed>>
    /\ UNCHANGED <<domVars, calls, rcuVars, mapVars, mqVars, poolVars>>
    /\ UNCHANGED <<ctlVars, mgrVars, pipeHist>>

\* ---- Logger::ProcessMessage (Logger.cpp 122-136)
\* if (!logMessage || !logMessage->IsActive()) return
Process_IsActive(w) ==
    /\ wk[w].pc = "p_active"
    /\ wk' = [wk EXCEPT ![w].pc = IF msgState[wk[w].msg] = "Active" THEN "p_handle"
                                  ELSE "w_releaseref"]
    /\ UNCHANGED <<m_running, m_flushing, messageQueue, pendingMessages,
                   m_nextQueueIndex, m_level, m_droppedMessages, m_totalProcessed,
                   lg, processed>>
    /\ UNCHANGED <<domVars, calls, rcuVars, mapVars, mqVars, poolVars>>
    /\ UNCHANGED <<ctlVars, mgrVars, pipeHist>>

\* handle = m_sinkList.GetReadHandle(); the loop starts at the first sink
Process_Handle(w) ==
    /\ wk[w].pc = "p_handle"
    /\ wk' = [wk EXCEPT ![w].pc = IF NumSinks >= 1 THEN "p_call" ELSE "p_release",
                        ![w].sink = 1]
    /\ UNCHANGED <<m_running, m_flushing, messageQueue, pendingMessages,
                   m_nextQueueIndex, m_level, m_droppedMessages, m_totalProcessed,
                   lg, processed>>
    /\ UNCHANGED <<domVars, calls, rcuVars, mapVars, mqVars, poolVars>>
    /\ UNCHANGED <<ctlVars, mgrVars, pipeHist>>

\* sink->Output(*logMessage, m_format) is called
Process_OutputCall(w) ==
    /\ wk[w].pc = "p_call"
    /\ wk' = [wk EXCEPT ![w].pc = "p_output"]
    /\ UNCHANGED <<m_running, m_flushing, messageQueue, pendingMessages,
                   m_nextQueueIndex, m_level, m_droppedMessages, m_totalProcessed,
                   lg, processed>>
    /\ UNCHANGED <<domVars, calls, rcuVars, mapVars, mqVars, poolVars>>
    /\ UNCHANGED <<ctlVars, mgrVars, pipeHist>>

\* Output returns; the loop goes to the next sink
Process_OutputReturn(w) ==
    /\ wk[w].pc = "p_output"
    /\ wk' = [wk EXCEPT ![w].pc = IF wk[w].sink + 1 <= NumSinks THEN "p_call"
                                  ELSE "p_release",
                        ![w].sink = wk[w].sink + 1]
    /\ sinkLog' = Append(sinkLog, msgRec[wk[w].msg])
    /\ UNCHANGED <<m_running, m_flushing, messageQueue, pendingMessages,
                   m_nextQueueIndex, m_level, m_droppedMessages, m_totalProcessed,
                   lg, processed>>
    /\ UNCHANGED <<domVars, calls, rcuVars, mapVars, mqVars, poolVars>>
    /\ UNCHANGED <<ctlVars, mgrVars, msgRec, nPushed, pushedRecs, logTrue>>

\* GetMessagePool().Release(logMessage)
Process_Release(w) ==
    /\ wk[w].pc = "p_release"
    /\ CallRelease(w, wk[w].msg)
    /\ processed' = processed \cup {wk[w].msg}
    /\ wk' = [wk EXCEPT ![w].pc = "w_releaseref"]
    /\ UNCHANGED <<used, tlsUsedCount, msgVars, m_chunks, m_chunkMutex, poolStats,
                   acquired>>
    /\ UNCHANGED <<m_running, m_flushing, messageQueue, pendingMessages,
                   m_nextQueueIndex, m_level, m_droppedMessages, m_totalProcessed,
                   lg>>
    /\ UNCHANGED <<domVars, calls, rcuVars, mapVars, mqVars>>
    /\ UNCHANGED <<ctlVars, mgrVars, pipeHist>>

\* where a worker goes on after an item: the top of the main loop, or the
\* top of the clean-up loop
NextItem(w) == IF wk[w].cleanup THEN [IdleWorker EXCEPT !.pc = "w_cleanup"]
               ELSE IdleWorker

\* item.message->ReleaseRef(): refCount.fetch_sub(1) == 1
Worker_ReleaseRef(w) ==
    /\ wk[w].pc = "w_releaseref"
    /\ ~InPool(w)
    /\ refCount' = [refCount EXCEPT ![wk[w].msg] = (@ + RefModulus - 1) % RefModulus]
    /\ wk' = [wk EXCEPT ![w] = IF refCount[wk[w].msg] = 1
                               THEN [wk[w] EXCEPT !.pc = "w_state"]
                               ELSE NextItem(w)]
    /\ UNCHANGED <<used, tlsUsedCount, msgState, msgLevel, msgLogger, m_chunks,
                   m_chunkMutex, poolStats, pl, poolHist>>
    /\ UNCHANGED <<m_running, m_flushing, messageQueue, pendingMessages,
                   m_nextQueueIndex, m_level, m_droppedMessages, m_totalProcessed,
                   lg, processed>>
    /\ UNCHANGED <<domVars, calls, rcuVars, mapVars, mqVars>>
    /\ UNCHANGED <<ctlVars, mgrVars, pipeHist>>

\* && item.message->state.load() == Releasing: FinalizeRelease(item.message)
Worker_State(w) ==
    /\ wk[w].pc = "w_state"
    /\ IF msgState[wk[w].msg] = "Releasing"
       THEN CallFinalizeRelease(w, wk[w].msg)
       ELSE UNCHANGED pl
    /\ wk' = [wk EXCEPT ![w] = NextItem(w)]
    /\ UNCHANGED <<used, tlsUsedCount, msgVars, m_chunks, m_chunkMutex, poolStats,
                   poolHist>>
    /\ UNCHANGED <<m_running, m_flushing, messageQueue, pendingMessages,
                   m_nextQueueIndex, m_level, m_droppedMessages, m_totalProcessed,
                   lg, processed>>
    /\ UNCHANGED <<domVars, calls, rcuVars, mapVars, mqVars>>
    /\ UNCHANGED <<ctlVars, mgrVars, pipeHist>>

\* the lock of the queue is taken again for the final clean-up
\* (LoggerThreadPool.cpp 237)
Worker_CleanupLock(w) ==
    /\ wk[w].pc = "w_exit"
    /\ wk' = [wk EXCEPT ![w].pc = "w_cleanup"]
    /\ UNCHANGED <<m_running, m_flushing, messageQueue, pendingMessages,
                   m_nextQueueIndex, m_level, m_droppedMessages, m_totalProcessed,
                   lg, processed>>
    /\ UNCHANGED <<domVars, calls, rcuVars, mapVars, mqVars, poolVars>>
    /\ UNCHANGED <<ctlVars, mgrVars, pipeHist>>

\* while (!messageQueue.empty()): top, pop, --pendingMessages; the items are
\* not processed, their reference is released (LoggerThreadPool.cpp 238-250).
\* When the queue is empty WorkerFunction returns and the thread ends.
Worker_Cleanup(w) ==
    /\ wk[w].pc = "w_cleanup"
    /\ ~InPool(w)
    /\ LET q == QueueOf(w) IN
       IF messageQueue[q] = <<>>
       THEN /\ wk' = [wk EXCEPT ![w] = [IdleWorker EXCEPT !.pc = "exited"]]
            /\ UNCHANGED <<messageQueue, pendingMessages>>
       ELSE /\ wk' = [wk EXCEPT ![w] = [IdleWorker EXCEPT
                                          !.pc = "w_releaseref",
                                          !.cleanup = TRUE,
                                          !.msg = messageQueue[q][1][1]]]
            /\ messageQueue' = [messageQueue EXCEPT ![q] = HeapPop(@)]
            /\ pendingMessages' = [pendingMessages EXCEPT ![q] = @ - 1]
    /\ UNCHANGED <<m_running, m_flushing, m_nextQueueIndex, m_level,
                   m_droppedMessages, m_totalProcessed, lg, processed>>
    /\ UNCHANGED <<domVars, calls, rcuVars, mapVars, mqVars, poolVars>>
    /\ UNCHANGED <<ctlVars, mgrVars, pipeHist>>

(***************************************************************************)
(* The calls that control the thread pool: LoggerThreadPool::Flush,        *)
(* Shutdown and Resize (Core/LoggerThreadPool.cpp) and                     *)
(* LogManager::Shutdown (LogManager.cpp 285-337).  A controlling thread    *)
(* makes one call in a run; its frame keeps the result.  Whether a         *)
(* deadline has passed is decided by the clock: either way is possible     *)
(* whenever the code looks at it.                                          *)
(***************************************************************************)
\* the variables of the pipeline that no controlling call writes
pipeRest == <<m_nextQueueIndex, m_level, m_droppedMessages, m_totalProcessed, lg,
              processed, pipeHist>>

\* the variables of the other components, where the registry and the sink
\* list are not touched
outsideVars == <<domVars, calls, rcuVars, mapVars, mqVars, poolVars>>

\* a step of a controlling thread that writes its frame only
CtlStep(c, frame) ==
    /\ ct' = [ct EXCEPT ![c] = frame]
    /\ UNCHANGED <<m_running, m_flushing, messageQueue, pendingMessages, wk,
                   m_queues, m_workers, joinable, m_resizeMutex, mgrVars, pipeRest>>
    /\ UNCHANGED outsideVars

\* ---- Flush (LoggerThreadPool.cpp 76-119), entered with pc "fl_snap" and
\* left for the pc in frame.flushRet
CallFlush(f, ret) == [f EXCEPT !.pc = "fl_snap", !.i = 0, !.pending = 0,
                               !.flushRet = ret]

\* the first loop: lock the queue, totalPending += pendingMessages, notify_one;
\* after the last queue: if (totalPending == 0) return
Flush_Snapshot(c) ==
    /\ ct[c].pc = "fl_snap"
    /\ ~QueueLocked(ct[c].i)
    /\ LET f == ct[c]
           total == f.pending + pendingMessages[f.i]
       IN CtlStep(c, IF f.i + 1 < m_queues
                     THEN [f EXCEPT !.i = f.i + 1, !.pending = total]
                     ELSE IF total = 0 THEN [f EXCEPT !.pc = f.flushRet]
                     ELSE [f EXCEPT !.pc = "fl_poll", !.i = 0, !.pending = 0])

\* while (now < endTime): when the deadline has passed the loop ends and
\* Flush reports the timeout; otherwise sleep_for(10ms)
Flush_Poll(c) ==
    /\ ct[c].pc = "fl_poll"
    /\ \E late \in BOOLEAN :
         CtlStep(c, IF late THEN [ct[c] EXCEPT !.pc = ct[c].flushRet,
                                               !.timedOut = TRUE]
                    ELSE [ct[c] EXCEPT !.pc = "fl_read", !.i = 0, !.pending = 0])

\* the loop of a poll: lock the queue, currentPending += pendingMessages;
\* after the last queue: if (currentPending == 0) return
Flush_Read(c) ==
    /\ ct[c].pc = "fl_read"
    /\ ~QueueLocked(ct[c].i)
    /\ LET f == ct[c]
           total == f.pending + pendingMessages[f.i]
       IN CtlStep(c, IF f.i + 1 < m_queues
                     THEN [f EXCEPT !.i = f.i + 1, !.pending = total]
                     ELSE IF total = 0 THEN [f EXCEPT !.pc = f.flushRet]
                     ELSE [f EXCEPT !.pc = "fl_poll"])

\* ---- LoggerThreadPool::Shutdown (LoggerThreadPool.cpp 31-74), entered with
\* pc "sd_running" and left for the pc in frame.sdRet
CallShutdown(f, flush, ret) == [f EXCEPT !.pc = "sd_running", !.flush = flush,
                                         !.sdRet = ret]

\* wasRunning = m_running.exchange(false); if (!wasRunning) return
Shutdown_Running(c) ==
    /\ ct[c].pc = "sd_running"
    /\ m_running' = FALSE
    /\ ct' = [ct EXCEPT ![c].pc = IF ~m_running THEN ct[c].sdRet
                                  ELSE IF ct[c].flush THEN "sd_flushon"
                                  ELSE "sd_notify",
                        ![c].i = 0]
    /\ UNCHANGED <<m_flushing, messageQueue, pendingMessages, wk, m_queues,
                   m_workers, joinable, m_resizeMutex, mgrVars, pipeRest>>
    /\ UNCHANGED outsideVars

\* m_flushing.store(true); Flush(timeout)
Shutdown_FlushOn(c) ==
    /\ ct[c].pc = "sd_flushon"
    /\ m_flushing' = TRUE
    /\ ct' = [ct EXCEPT ![c] = CallFlush(ct[c], "sd_flushoff")]
    /\ UNCHANGED <<m_running, messageQueue, pendingMessages, wk, m_queues,
                   m_workers, joinable, m_resizeMutex, mgrVars, pipeRest>>
    /\ UNCHANGED outsideVars

\* m_flushing.store(false)
Shutdown_FlushOff(c) ==
    /\ ct[c].pc = "sd_flushoff"
    /\ m_flushing' = FALSE
    /\ ct' = [ct EXCEPT ![c].pc = "sd_notify", ![c].i = 0]
    /\ UNCHANGED <<m_running, messageQueue, pendingMessages, wk, m_queues,
                   m_workers, joinable, m_resizeMutex, mgrVars, pipeRest>>
    /\ UNCHANGED outsideVars

\* for each queue: lock its mutex, cv.notify_all()
Shutdown_Notify(c) ==
    /\ ct[c].pc = "sd_notify"
    /\ ~QueueLocked(ct[c].i)
    /\ CtlStep(c, IF ct[c].i + 1 < m_queues THEN [ct[c] EXCEPT !.i = ct[c].i + 1]
                  ELSE [ct[c] EXCEPT !.pc = "sd_join", !.i = 0])

\* for each worker: if joinable, detach it when the deadline has passed and
\* join it otherwise; join returns when the worker has left WorkerFunction.
\* After the last worker Shutdown returns.
Shutdown_Join(c) ==
    /\ ct[c].pc = "sd_join"
    /\ LET f == ct[c]
           w == WorkerOf(f.i)
           after == IF f.i + 1 < m_workers THEN [f EXCEPT !.i = f.i + 1]
                    ELSE [f EXCEPT !.pc = f.sdRet, !.sdReturned = TRUE]
       IN
       IF f.i >= m_workers
       THEN /\ ct' = [ct EXCEPT ![c] = [f EXCEPT !.pc = f.sdRet, !.sdReturned = TRUE]]
            /\ UNCHANGED joinable
       ELSE IF ~joinable[w]
       THEN /\ ct' = [ct EXCEPT ![c] = after]
            /\ UNCHANGED joinable
       ELSE \E late \in BOOLEAN :
              /\ late \/ wk[w].pc = "exited"
              /\ joinable' = [joinable EXCEPT ![w] = FALSE]
              /\ ct' = [ct EXCEPT ![c] = IF late THEN [after EXCEPT !.timedOut = TRUE]
                                         ELSE after]
    /\ UNCHANGED <<m_running, m_flushing, messageQueue, pendingMessages, wk,
                   m_queues, m_workers, m_resizeMutex, mgrVars, pipeRest>>
    /\ UNCHANGED outsideVars

\* ---- Resize (LoggerThreadPool.cpp 253-318): newThreadCount = max(1, n);
\* lock m_resizeMutex
Resize_Lock(c) ==
    /\ ct[c].pc = "rs_lock"
    /\ m_resizeMutex = NoThread
    /\ m_resizeMutex' = c
    /\ ct' = [ct EXCEPT ![c].pc = "rs_running"]
    /\ UNCHANGED <<m_running, m_flushing, messageQueue, pendingMessages, wk,
                   m_queues, m_workers, joinable, mgrVars, pipeRest>>
    /\ UNCHANGED outsideVars

\* if (!m_running.load()) return false; if the count is the current one return
\* true.  Growing: queues are added up to the new count and the new workers
\* are started on the queues currentSize + i, where currentSize is
\* m_queues.size() before the queues were added.  Shrinking: the terminator
\* threads are started.
Resize_Running(c) ==
    /\ ct[c].pc = "rs_running"
    /\ LET f == ct[c]
           started == {q \in Queues : q >= m_queues /\ q < m_queues + (f.n - m_workers)}
       IN
       IF ~m_running \/ f.n = m_workers
       THEN /\ ct' = [ct EXCEPT ![c] = [f EXCEPT !.pc = "done",
                                                 !.ret = IF m_running THEN "true"
                                                         ELSE "false"]]
            /\ m_resizeMutex' = NoThread
            /\ UNCHANGED <<wk, m_queues, m_workers, joinable>>
       ELSE IF f.n < m_workers
       THEN /\ ct' = [ct EXCEPT ![c].pc = "rs_join"]
            /\ UNCHANGED <<wk, m_queues, m_workers, joinable, m_resizeMutex>>
       ELSE /\ m_queues' = IF m_queues < f.n THEN f.n ELSE m_queues
            /\ m_workers' = f.n
            /\ wk' = [w \in Workers |-> IF QueueOf(w) \in started THEN IdleWorker
                                        ELSE wk[w]]
            /\ joinable' = [w \in Workers |-> joinable[w] \/ QueueOf(w) \in started]
            /\ ct' = [ct EXCEPT ![c] = [f EXCEPT !.pc = "done", !.ret = "true"]]
            /\ m_resizeMutex' = NoThread
    /\ UNCHANGED <<m_running, m_flushing, messageQueue, pendingMessages, mgrVars,
                   pipeRest>>
    /\ UNCHANGED outsideVars

\* each terminator notifies the condition variable of its queue and joins the
\* worker; Resize joins the terminators, m_workers.resize(newThreadCount),
\* return true.  A join returns when the worker has left WorkerFunction.
Resize_Join(c) ==
    /\ ct[c].pc = "rs_join"
    /\ LET excess == {w \in Workers : QueueOf(w) >= ct[c].n /\ QueueOf(w) < m_workers} IN
       /\ \A w \in excess : joinable[w] => wk[w].pc = "exited"
       /\ joinable' = [w \in Workers |-> joinable[w] /\ w \notin excess]
    /\ m_workers' = ct[c].n
    /\ m_resizeMutex' = NoThread
    /\ ct' = [ct EXCEPT ![c] = [ct[c] EXCEPT !.pc = "done", !.ret = "true"]]
    /\ UNCHANGED <<m_running, m_flushing, messageQueue, pendingMessages, wk,
                   m_queues, mgrVars, pipeRest>>
    /\ UNCHANGED outsideVars

\* ---- LogManager::Shutdown (LogManager.cpp 285-337):
\* m_state.compare_exchange_strong(Running, ShuttingDown)
MgrShutdown_Cas(c) ==
    /\ ct[c].pc = "ms_cas"
    /\ IF m_state = "Running"
       THEN /\ m_state' = "ShuttingDown"
            /\ teardowns' = teardowns + 1
            /\ ct' = [ct EXCEPT ![c].pc = "ms_wait"]
       ELSE /\ ct' = [ct EXCEPT ![c].pc = "ms_load"]
            /\ UNCHANGED <<m_state, teardowns>>
    /\ UNCHANGED <<m_running, m_flushing, messageQueue, pendingMessages, wk,
                   m_queues, m_workers, joinable, m_resizeMutex, m_threadPool,
                   deletes, lifeVars, pipeRest>>
    /\ UNCHANGED outsideVars

\* currentState = m_state.load(): an error is returned for Uninitialized,
\* ShutDown, Initializing and ShuttingDown; for any other value the call
\* goes on into the try block
MgrShutdown_Load(c) ==
    /\ ct[c].pc = "ms_load"
    /\ IF m_state \in {"Uninitialized", "ShutDown", "Initializing", "ShuttingDown"}
       THEN /\ ct' = [ct EXCEPT ![c] = [ct[c] EXCEPT !.pc = "done", !.ret = "Err"]]
            /\ UNCHANGED teardowns
       ELSE /\ ct' = [ct EXCEPT ![c].pc = "ms_wait"]
            /\ teardowns' = teardowns + 1
    /\ UNCHANGED <<m_running, m_flushing, messageQueue, pendingMessages, wk,
                   m_queues, m_workers, joinable, m_resizeMutex, m_state,
                   m_threadPool, deletes, lifeVars, pipeRest>>
    /\ UNCHANGED outsideVars

\* if (waitForCompletion) { threadPool = m_threadPool.load();
\* if (threadPool) threadPool->Flush(timeout); }
MgrShutdown_Wait(c) ==
    /\ ct[c].pc = "ms_wait"
    /\ CtlStep(c, IF ct[c].wait /\ m_threadPool THEN CallFlush(ct[c], "ms_exchange")
                  ELSE [ct[c] EXCEPT !.pc = "ms_exchange"])

\* threadPool = m_threadPool.exchange(nullptr);
\* if (threadPool) threadPool->Shutdown(waitForCompletion, timeout)
MgrShutdown_Exchange(c) ==
    /\ ct[c].pc = "ms_exchange"
    /\ m_threadPool' = FALSE
    /\ ct' = [ct EXCEPT ![c] = IF m_threadPool
                               THEN CallShutdown(ct[c], ct[c].wait, "ms_delete")
                               ELSE [ct[c] EXCEPT !.pc = "ms_clear"]]
    /\ UNCHANGED <<m_running, m_flushing, messageQueue, pendingMessages, wk,
                   m_queues, m_workers, joinable, m_resizeMutex, m_state,
                   teardowns, deletes, lifeVars, pipeRest>>
    /\ UNCHANGED outsideVars

\* delete threadPool: the destructor calls Shutdown(), which returns at once
\* because m_running is false already
MgrShutdown_Delete(c) ==
    /\ ct[c].pc = "ms_delete"
    /\ deletes' = deletes + 1
    /\ ct' = [ct EXCEPT ![c].pc = "ms_clear"]
    /\ UNCHANGED <<m_running, m_flushing, messageQueue, pendingMessages, wk,
                   m_queues, m_workers, joinable, m_resizeMutex, m_state,
                   m_threadPool, teardowns, lifeVars, pipeRest>>
    /\ UNCHANGED outsideVars

\* m_loggerMap->Clear() (LogManager.cpp 186-198): the bucket is exchanged for
\* null and the entries of its chain are deleted; m_globalSinks.Clear()
\* (RCUList.h 188-193): the head is exchanged for null and retired
ClearAll(c, from, to) ==
    /\ ct[c].pc = from
    /\ bucket' = Null
    /\ freed' = freed \cup {ChainFrom(entNext, bucket, NumPtrs)[k] :
                              k \in 1..Len(ChainFrom(entNext, bucket, NumPtrs))}
    /\ m_head' = Null
    /\ IF m_head # Null THEN CallRetire(c, m_head) ELSE UNCHANGED <<dom, passed>>
    /\ ct' = [ct EXCEPT ![c].pc = to]
    /\ UNCHANGED <<hzOwner, hzPtr, rnPointer, rnNext, rnState, m_retiredList,
                   m_retiredCount, hp, hzValid>>
    /\ UNCHANGED <<calls, nodeItems, nodeState, rcu, entName, entNext, entState,
                   mp, uaf, got, mqVars, poolVars>>
    /\ UNCHANGED <<m_running, m_flushing, messageQueue, pendingMessages, wk,
                   m_queues, m_workers, joinable, m_resizeMutex, mgrVars, pipeRest>>

MgrShutdown_Clear(c) ==
    /\ ct[c].pc = "ms_clear"
    /\ ClearAll(c, "ms_clear", "ms_state")

\* m_state.store(ShutDown); return Ok()
MgrShutdown_State(c) ==
    /\ ct[c].pc = "ms_state"
    /\ ~InDomain(c)
    /\ m_state' = "ShutDown"
    /\ ct' = [ct EXCEPT ![c] = [ct[c] EXCEPT !.pc = "done", !.ret = "Ok"]]
    /\ UNCHANGED <<m_running, m_flushing, messageQueue, pendingMessages, wk,
                   m_queues, m_workers, joinable, m_resizeMutex, m_threadPool,
                   teardowns, deletes, lifeVars, pipeRest>>
    /\ UNCHANGED outsideVars

\* ---- the calls of the controlling threads.  owed keeps what the call has
\* to account for: the records pushed before a Flush, the records whose Log
\* returned true before a Shutdown.
Ctl_Flush(c) ==
    /\ ct[c].pc = "idle"
    /\ CtlStep(c, [CallFlush(ct[c], "done") EXCEPT !.op = "Flush",
                                                  !.owed = pushedRecs])

Ctl_Shutdown(c, flush) ==
    /\ ct[c].pc = "idle"
    /\ CtlStep(c, [CallShutdown(ct[c], flush, "done") EXCEPT !.op = "Shutdown",
                                                            !.owed = logTrue])

Ctl_Resize(c, n) ==
    /\ ct[c].pc = "idle"
    /\ CtlStep(c, [ct[c] EXCEPT !.pc = "rs_lock", !.op = "Resize",
                                !.n = IF n < 1 THEN 1 ELSE n])

Mgr_Shutdown(c, wait) ==
    /\ ct[c].pc = "idle"
    /\ CtlStep(c, [ct[c] EXCEPT !.pc = "ms_cas", !.op = "LogManager::Shutdown",
                                !.wait = wait, !.owed = logTrue])

\* ---- LogManager::Initialize (LogManager.cpp 222-283), the body that
\* call_once runs once.  CheckAndTransitionState(Uninitialized, Initializing)
Initialize_Cas ==
    /\ m_state = "Uninitialized"
    /\ once.flag = "clear"
    /\ m_state' = "Initializing"
    /\ once' = [once EXCEPT !.flag = "active", !.bodies = @ + 1]
    /\ UNCHANGED <<m_running, m_flushing, messageQueue, pendingMessages, wk,
                   ctlVars, m_threadPool, teardowns, deletes, m_loggerMap,
                   regVars, pipeRest>>
    /\ UNCHANGED outsideVars

\* the message pool, the logger map and the thread pool are created,
\* m_threadPool is stored and CreateDefaultLogger inserts the default logger
\* into the map; no other thread uses the map before the state is Running
Initialize_Create ==
    /\ m_state = "Initializing"
    /\ ~m_threadPool
    /\ deletes = 0
    /\ m_threadPool' = TRUE
    /\ bucket' = 1
    /\ entName' = [entName EXCEPT ![1] = InitialName(1)]
    /\ entNext' = [entNext EXCEPT ![1] = bucket]
    /\ entState' = [entState EXCEPT ![1] = "live"]
    /\ m_loggerMap' = TRUE
    /\ UNCHANGED <<m_running, m_flushing, messageQueue, pendingMessages, wk,
                   ctlVars, m_state, teardowns, deletes, once, regVars,
                   pipeRest>>
    /\ UNCHANGED <<domVars, calls, rcuVars, mp, uaf, got, mqVars, poolVars>>

\* m_state.store(Running)
Initialize_Running ==
    /\ m_state = "Initializing"
    /\ m_threadPool
    /\ m_state' = "Running"
    /\ once' = [once EXCEPT !.flag = "done"]
    /\ UNCHANGED <<m_running, m_flushing, messageQueue, pendingMessages, wk,
                   ctlVars, m_threadPool, teardowns, deletes, m_loggerMap,
                   regVars, pipeRest>>
    /\ UNCHANGED outsideVars

\* a controlling thread inside Flush or Shutdown of a LoggerThreadPool that
\* another thread has deleted: the call reads freed memory, and one outcome
\* is the end of the thread (the other outcomes are the steps themselves)
PoolPcs == {"fl_snap", "fl_poll", "fl_read", "sd_running", "sd_flushon",
            "sd_flushoff", "sd_notify", "sd_join"}

Ctl_Deleted(c) ==
    /\ ct[c].pc \in PoolPcs
    /\ deletes > 0
    /\ CtlStep(c, [ct[c] EXCEPT !.pc = "crash"])


\* ---- the calls of the life cycle, made by the controlling threads.
\* A step that writes the caller's frame and the manager's own fields
MgrStep(c, frame, state, pool, o, lm) ==
    /\ ct' = [ct EXCEPT ![c] = frame]
    /\ m_state' = state
    /\ m_threadPool' = pool
    /\ once' = o
    /\ m_loggerMap' = lm
    /\ UNCHANGED <<m_running, m_flushing, messageQueue, pendingMessages, wk,
                   m_queues, m_workers, joinable, m_resizeMutex, teardowns,
                   deletes, regVars, pipeRest>>
    /\ UNCHANGED outsideVars

Return(f, r) == [f EXCEPT !.pc = "done", !.ret = r]

\* a call_once that runs the body whenever no body is running
Init_OnceAlways(c) ==
    /\ ct[c].pc = "in_once"
    /\ once.flag # "active"
    /\ MgrStep(c, [ct[c] EXCEPT !.pc = "in_load"], m_state, m_threadPool,
               [once EXCEPT !.flag = "active", !.bodies = @ + 1], m_loggerMap)

\* ---- LogManager::Initialize (LogManager.cpp 222-283).
\* std::call_once(initFlag, body): the first caller runs the body, a caller
\* that finds the body running waits, and one that finds it done goes on to
\* return initResult
Init_Once(c) ==
    /\ ct[c].pc = "in_once"
    /\ once.flag # "active"
    /\ IF once.flag = "done"
       THEN CtlStep(c, Return(ct[c], once.result))
       ELSE MgrStep(c, [ct[c] EXCEPT !.pc = "in_load"], m_state, m_threadPool,
                    [once EXCEPT !.flag = "active", !.bodies = @ + 1], m_loggerMap)

\* CheckAndTransitionState (544-551): currentState = m_state.load();
\* if (currentState != expectedState) return false
Init_Load(c) ==
    /\ ct[c].pc = "in_load"
    /\ CtlStep(c, [ct[c] EXCEPT !.pc = IF m_state = "Uninitialized" THEN "in_cas"
                                       ELSE "in_err"])

\* return m_state.compare_exchange_strong(currentState, Initializing)
Init_Cas(c) ==
    /\ ct[c].pc = "in_cas"
    /\ IF m_state = "Uninitialized"
       THEN MgrStep(c, [ct[c] EXCEPT !.pc = "in_create"], "Initializing",
                    m_threadPool, once, m_loggerMap)
       ELSE CtlStep(c, [ct[c] EXCEPT !.pc = "in_err"])

\* initResult = Err(1, "Cannot initialize LogManager: already in state ...");
\* the body returns, call_once sets the flag and Initialize returns initResult
Init_Err(c) ==
    /\ ct[c].pc = "in_err"
    /\ MgrStep(c, Return(ct[c], "Err"), m_state, m_threadPool,
               [once EXCEPT !.flag = "done", !.result = "Err"], m_loggerMap)

\* m_messagePool = make_unique<MessagePool>(); m_loggerMap =
\* make_unique<LoggerMap>(...) (241-253): either allocation can throw
\* std::bad_alloc, and then m_loggerMap is still null
Init_Create(c) ==
    /\ ct[c].pc = "in_create"
    /\ \E throws \in BOOLEAN :
          IF throws
          THEN CtlStep(c, [ct[c] EXCEPT !.pc = "in_catch"])
          ELSE MgrStep(c, [ct[c] EXCEPT !.pc = "in_pool"], m_state, m_threadPool,
                       once, TRUE)

\* threadPool = new(std::nothrow) LoggerThreadPool(threadCount) (255-261): on
\* null the state is stored Uninitialized and runtime_error is thrown;
\* otherwise m_threadPool.store(threadPool) (263)
Init_Pool(c) ==
    /\ ct[c].pc = "in_pool"
    /\ \E fails \in BOOLEAN :
          IF fails
          THEN MgrStep(c, [ct[c] EXCEPT !.pc = "in_catch"], "Uninitialized",
                       m_threadPool, once, m_loggerMap)
          ELSE MgrStep(c, [ct[c] EXCEPT !.pc = "in_default"], m_state, TRUE,
                       once, m_loggerMap)

\* CreateDefaultLogger() (566-577): make_unique<Logger> can throw; otherwise
\* the logger is inserted into the map, which no other thread uses yet
Init_Default(c) ==
    /\ ct[c].pc = "in_default"
    /\ \E throws \in BOOLEAN :
          IF throws
          THEN CtlStep(c, [ct[c] EXCEPT !.pc = "in_catch"])
          ELSE /\ ct' = [ct EXCEPT ![c].pc = "in_running"]
               /\ bucket' = NewEntry
               /\ entName' = [entName EXCEPT ![NewEntry] = InitialName(1)]
               /\ entNext' = [entNext EXCEPT ![NewEntry] = bucket]
               /\ entState' = [entState EXCEPT ![NewEntry] = "live"]
               /\ UNCHANGED <<m_running, m_flushing, messageQueue, pendingMessages,
                              wk, m_queues, m_workers, joinable, m_resizeMutex,
                              mgrVars, pipeRest>>
               /\ UNCHANGED <<domVars, calls, rcuVars, mp, uaf, got, mqVars,
                              poolVars>>

\* m_state.store(Running) (267); the body returns, call_once sets the flag
\* and Initialize returns initResult, which is still Ok()
Init_Running(c) ==
    /\ ct[c].pc = "in_running"
    /\ MgrStep(c, Return(ct[c], once.result), "Running", m_threadPool,
               [once EXCEPT !.flag = "done"], m_loggerMap)

\* catch (const std::exception&): m_state.store(Uninitialized);
\* ShutdownAll() (271-272)
Init_Catch(c) ==
    /\ ct[c].pc = "in_catch"
    /\ MgrStep(c, [ct[c] EXCEPT !.pc = "sa_load", !.saRet = "in_result",
                               !.threw = TRUE],
               "Uninitialized", m_threadPool, once, m_loggerMap)

\* initResult = Err(1, "LogManager initialization failed: ...") (273); the
\* body returns and Initialize returns initResult
Init_Result(c) ==
    /\ ct[c].pc = "in_result"
    /\ MgrStep(c, Return(ct[c], "Err"), m_state, m_threadPool,
               [once EXCEPT !.flag = "done", !.result = "Err"], m_loggerMap)

\* ---- LogManager::ShutdownAll (495-515), entered with pc "sa_load" and left
\* for the pc in frame.saRet.  if (m_state.load() == ShutDown) return
SA_Load(c) ==
    /\ ct[c].pc = "sa_load"
    /\ CtlStep(c, [ct[c] EXCEPT !.pc = IF m_state = "ShutDown" THEN ct[c].saRet
                                       ELSE "sa_cas"])

\* m_state.compare_exchange_strong(Running, ShuttingDown), result unused
SA_Cas(c) ==
    /\ ct[c].pc = "sa_cas"
    /\ MgrStep(c, [ct[c] EXCEPT !.pc = "sa_exchange"],
               IF m_state = "Running" THEN "ShuttingDown" ELSE m_state,
               m_threadPool, once, m_loggerMap)

\* threadPool = m_threadPool.exchange(nullptr);
\* if (threadPool) threadPool->Shutdown(true)
SA_Exchange(c) ==
    /\ ct[c].pc = "sa_exchange"
    /\ MgrStep(c, IF m_threadPool THEN CallShutdown(ct[c], TRUE, "sa_delete")
                  ELSE [ct[c] EXCEPT !.pc = "sa_clear"],
               m_state, FALSE, once, m_loggerMap)

\* delete threadPool
SA_Delete(c) ==
    /\ ct[c].pc = "sa_delete"
    /\ deletes' = deletes + 1
    /\ ct' = [ct EXCEPT ![c].pc = "sa_clear"]
    /\ UNCHANGED <<m_running, m_flushing, messageQueue, pendingMessages, wk,
                   m_queues, m_workers, joinable, m_resizeMutex, m_state,
                   m_threadPool, teardowns, lifeVars, pipeRest>>
    /\ UNCHANGED outsideVars

\* m_loggerMap->Clear(); m_globalSinks.Clear()
SA_Clear(c) ==
    /\ m_loggerMap
    /\ ClearAll(c, "sa_clear", "sa_state")

\* m_loggerMap->Clear() through a null m_loggerMap: a member function runs
\* on a null object, which ends the thread or reads whatever is at the
\* buckets' offset; the outcomes are the end of the thread and going on
SA_ClearNull(c) ==
    /\ ct[c].pc = "sa_clear"
    /\ ~m_loggerMap
    /\ \E pc \in {"crash", "sa_state"} : CtlStep(c, [ct[c] EXCEPT !.pc = pc])

\* m_state.store(ShutDown)
SA_State(c) ==
    /\ ct[c].pc = "sa_state"
    /\ ~InDomain(c)
    /\ MgrStep(c, [ct[c] EXCEPT !.pc = ct[c].saRet], "ShutDown", m_threadPool,
               once, m_loggerMap)

\* ---- LogManager::ResetAll (517-526).
\* if (m_state.load() != Running) return; ShutdownAll()
RA_Load(c) ==
    /\ ct[c].pc = "ra_load"
    /\ CtlStep(c, IF m_state # "Running" THEN Return(ct[c], "void")
                  ELSE [ct[c] EXCEPT !.pc = "sa_load", !.saRet = "ra_store"])

\* m_state.store(Uninitialized); Initialize(), whose result is dropped
RA_Store(c) ==
    /\ ct[c].pc = "ra_store"
    /\ MgrStep(c, [ct[c] EXCEPT !.pc = "in_once"], "Uninitialized", m_threadPool,
               once, m_loggerMap)

\* a thread that has returned from a call makes its next one
Ctl_Next(c, maxCalls) ==
    /\ ct[c].pc = "done"
    /\ calls < maxCalls
    /\ calls' = calls + 1
    /\ ct' = [ct EXCEPT ![c] = IdleCtl]
    /\ UNCHANGED <<domVars, rcuVars, mapVars, mqVars, poolVars>>
    /\ UNCHANGED <<m_running, m_flushing, messageQueue, pendingMessages, wk,
                   m_queues, m_workers, joinable, m_resizeMutex, mgrVars, pipeRest>>

Mgr_Initialize(c) ==
    /\ ct[c].pc = "idle"
    /\ CtlStep(c, [ct[c] EXCEPT !.pc = "in_once", !.op = "Initialize",
                                !.seen = m_state])

Mgr_ShutdownAll(c) ==
    /\ ct[c].pc = "idle"
    /\ CtlStep(c, [ct[c] EXCEPT !.pc = "sa_load", !.op = "ShutdownAll",
                                !.saRet = "done"])

Mgr_ResetAll(c) ==
    /\ ct[c].pc = "idle"
    /\ CtlStep(c, [ct[c] EXCEPT !.pc = "ra_load", !.op = "ResetAll"])

(***************************************************************************)
(* RCUList<T> (RCUList.h).  A node is a heap object of the domain's Ptrs;  *)
(* a deleted node keeps the items it had, and what reads it is recorded.   *)
(***************************************************************************)
Items == 1..NumItems
\* a T that has been moved from (std::move(item) in Add)
MovedFrom == 0

IdleRcu == [pc |-> "idle", item |-> MovedFrom, oldHead |-> Null, newHead |-> Null,
            node |-> Null, result |-> FALSE]

\* the compare-exchange failures without a concurrent writer in one run
MaxSpurious == 1

\* the Node objects of a run: more than the pointers the domain's threads
\* use, for the runs that start with a list that holds items, for the nodes
\* a loop allocates again after a failed compare-exchange and for the runs
\* in which the addresses in Ptrs are those of LoggerEntry objects
Nodes == 1..(2 * NumPtrs + MaxSpurious)

\* an RCUList after construction: m_head{nullptr}; operator new can return
\* NumPtrs nodes in the run
RCUInit ==
    /\ m_head = Null
    /\ nodeItems = [p \in Nodes |-> <<>>]
    /\ nodeState = [p \in Nodes |-> IF p \in Ptrs THEN "free" ELSE "none"]
    /\ rcu = [t \in Threads |-> IdleRcu]

\* an RCUList whose head is a node that holds the items L, as a sequence of
\* Add and Remove calls leaves it; operator new can return the other nodes
RCUHolding(L) ==
    /\ m_head = 1
    /\ nodeItems = [p \in Nodes |-> IF p = 1 THEN L ELSE <<>>]
    /\ nodeState = [p \in Nodes |-> IF p = 1 THEN "live" ELSE "free"]
    /\ rcu = [t \in Threads |-> IdleRcu]

\* the list of global sinks of a LogManager, empty: the addresses in Ptrs are
\* those of the LoggerEntry objects, operator new returns the others
RCUInitSinks ==
    /\ m_head = Null
    /\ nodeItems = [p \in Nodes |-> <<>>]
    /\ nodeState = [p \in Nodes |-> IF p \in Ptrs THEN "none" ELSE "free"]
    /\ rcu = [t \in Threads |-> IdleRcu]

FreeNodes == {p \in Nodes : nodeState[p] = "free"}
\* what operator new returns
NewNode == CHOOSE x \in FreeNodes : \A y \in FreeNodes : x <= y

\* a thread starts an RCUList call when it is in none and calls are left
StartCallRCU(t) ==
    /\ rcu[t].pc = "idle"
    /\ ~InDomain(t)
    /\ calls < MaxCallsRCU
    /\ calls' = calls + 1

\* ---- ReadHandle (RCUList.h 54-64): m_node = nullptr; m_hp = new HazardPointer
RH_Begin(t) ==
    /\ StartCallRCU(t)
    /\ rcu' = [rcu EXCEPT ![t].pc = "rh_load"]
    /\ hp' = [hp EXCEPT ![t][1] = NewHazardPointer]
    /\ UNCHANGED <<hzOwner, hzPtr, rnPointer, rnNext, rnState, m_retiredList,
                   m_retiredCount, freed, dom, passed, hzValid>>
    /\ UNCHANGED <<m_head, nodeItems, nodeState>>
    /\ UNCHANGED <<mapVars, aloneVars>>

\* head = m_head.load(acquire); if (head) m_node = m_hp->Protect(head)
RH_Load(t) ==
    /\ rcu[t].pc = "rh_load"
    /\ rcu' = [rcu EXCEPT ![t].pc = "rh_live", ![t].node = m_head]
    /\ IF m_head # Null THEN CallProtect(t, 1, m_head) ELSE UNCHANGED dom
    /\ UNCHANGED <<hzOwner, hzPtr, rnPointer, rnNext, rnState, m_retiredList,
                   m_retiredCount, freed, hp, passed, hzValid>>
    /\ UNCHANGED <<calls, m_head, nodeItems, nodeState>>
    /\ UNCHANGED <<mapVars, aloneVars>>

\* the constructor has returned and the handle is not destroyed yet
HandleLive(t) == rcu[t].pc = "rh_live" /\ ~InDomain(t)

\* ~ReadHandle: ~HazardPointer (HazardPointer.cpp 163-167) unprotects if active
RH_Destroy(t) ==
    /\ HandleLive(t)
    /\ ResetHazardPointer(t, 1)
    /\ rcu' = [rcu EXCEPT ![t] = IdleRcu]
    /\ UNCHANGED <<hzOwner, rnPointer, rnNext, rnState, m_retiredList,
                   m_retiredCount, freed, dom, passed>>
    /\ UNCHANGED <<calls, m_head, nodeItems, nodeState>>
    /\ UNCHANGED <<mapVars, aloneVars>>

\* ---- Add (RCUList.h 110-124): oldHead = m_head.load(acquire)
Add_Load(t, x) ==
    /\ StartCallRCU(t)
    /\ rcu' = [rcu EXCEPT ![t].pc = "add_new", ![t].item = x, ![t].oldHead = m_head]
    /\ UNCHANGED domVars
    /\ UNCHANGED <<m_head, nodeItems, nodeState>>
    /\ UNCHANGED <<mapVars, aloneVars>>

\* newHead = new Node(oldHead ? oldHead->items : {}); push_back(std::move(item))
Add_New(t) ==
    /\ rcu[t].pc = "add_new"
    /\ FreeNodes # {}
    /\ LET old == rcu[t].oldHead
           copy == IF old # Null THEN nodeItems[old] ELSE <<>> IN
       /\ nodeState' = [nodeState EXCEPT ![NewNode] = "live"]
       /\ nodeItems' = [nodeItems EXCEPT ![NewNode] = Append(copy, rcu[t].item)]
       /\ rcu' = [rcu EXCEPT ![t].pc = "add_cas", ![t].newHead = NewNode,
                             ![t].item = MovedFrom]
    /\ UNCHANGED domVars
    /\ UNCHANGED <<calls, m_head>>
    /\ UNCHANGED <<mapVars, aloneVars>>

\* m_head.compare_exchange_weak(oldHead, newHead); if (oldHead) RetireNode(oldHead)
Add_Cas(t) ==
    /\ rcu[t].pc = "add_cas"
    /\ IF m_head = rcu[t].oldHead
       THEN /\ m_head' = rcu[t].newHead
            /\ rcu' = [rcu EXCEPT ![t] = IdleRcu]
            /\ IF rcu[t].oldHead # Null
               THEN CallRetire(t, rcu[t].oldHead)
               ELSE UNCHANGED <<dom, passed>>
       ELSE /\ rcu' = [rcu EXCEPT ![t].pc = "add_new", ![t].oldHead = m_head,
                                  ![t].newHead = Null]
            /\ UNCHANGED <<m_head, dom, passed>>
    /\ UNCHANGED <<hzOwner, hzPtr, rnPointer, rnNext, rnState, m_retiredList,
                   m_retiredCount, freed, hp, hzValid>>
    /\ UNCHANGED <<calls, nodeItems, nodeState>>
    /\ UNCHANGED <<mapVars, aloneVars>>

\* the nodes a loop allocated and dropped after a failed compare-exchange
Leaked ==
    {p \in Nodes : /\ nodeState[p] = "live"
                   /\ p # m_head
                   /\ p \notin passed
                   /\ \A t \in Threads : rcu[t].newHead # p}

\* compare_exchange_weak is allowed to fail although m_head equals oldHead:
\* oldHead is loaded again and the loop of Add runs once more, with a new
\* node and with the item that was moved from in the first pass
Add_CasSpurious(t) ==
    /\ rcu[t].pc = "add_cas"
    /\ m_head = rcu[t].oldHead
    /\ Cardinality(Leaked) < MaxSpurious
    /\ rcu' = [rcu EXCEPT ![t].pc = "add_new", ![t].newHead = Null]
    /\ UNCHANGED domVars
    /\ UNCHANGED <<calls, m_head, nodeItems, nodeState>>
    /\ UNCHANGED <<mapVars, aloneVars>>

\* the position of the first entry of items that equals x, 0 when there is none
RECURSIVE IndexOf(_, _, _)
IndexOf(items, x, i) ==
    IF i > Len(items) THEN 0
    ELSE IF items[i] = x THEN i
    ELSE IndexOf(items, x, i + 1)

\* the copy loop of Remove: every entry that does not equal x, in order
RECURSIVE Without(_, _)
Without(items, x) ==
    IF items = <<>> THEN <<>>
    ELSE IF Head(items) = x THEN Without(Tail(items), x)
    ELSE <<Head(items)>> \o Without(Tail(items), x)

\* ---- Remove (RCUList.h 150-186): load, the empty test and the search
Remove_Load(t, x) ==
    /\ StartCallRCU(t)
    /\ IF m_head = Null \/ nodeItems[m_head] = <<>> \/ IndexOf(nodeItems[m_head], x, 1) = 0
       THEN rcu' = [rcu EXCEPT ![t].result = FALSE]
       ELSE rcu' = [rcu EXCEPT ![t].pc = "rem_new", ![t].item = x,
                               ![t].oldHead = m_head]
    /\ UNCHANGED domVars
    /\ UNCHANGED <<m_head, nodeItems, nodeState>>
    /\ UNCHANGED <<mapVars, aloneVars>>

\* newHead = new Node(); reserve(oldHead->items.size() - 1); the copy loop.
\* After a failed compare-exchange oldHead can be null: a null dereference.
\* It can also be a node with no items: size() - 1 is then the largest
\* size_t and reserve throws std::length_error; the new node is not freed.
Remove_New(t) ==
    /\ rcu[t].pc = "rem_new"
    /\ FreeNodes # {}
    /\ IF rcu[t].oldHead = Null
       THEN /\ rcu' = [rcu EXCEPT ![t] = [IdleRcu EXCEPT !.pc = "crash"]]
            /\ UNCHANGED <<nodeState, nodeItems>>
       ELSE IF nodeItems[rcu[t].oldHead] = <<>>
       THEN /\ nodeState' = [nodeState EXCEPT ![NewNode] = "live"]
            /\ rcu' = [rcu EXCEPT ![t] = [IdleRcu EXCEPT !.pc = "thrown"]]
            /\ UNCHANGED nodeItems
       ELSE /\ nodeState' = [nodeState EXCEPT ![NewNode] = "live"]
            /\ nodeItems' = [nodeItems EXCEPT ![NewNode] =
                                Without(nodeItems[rcu[t].oldHead], rcu[t].item)]
            /\ rcu' = [rcu EXCEPT ![t].pc = "rem_cas", ![t].newHead = NewNode]
    /\ UNCHANGED domVars
    /\ UNCHANGED <<calls, m_head>>
    /\ UNCHANGED <<mapVars, aloneVars>>

\* m_head.compare_exchange_weak(oldHead, newHead); RetireNode(oldHead); return true
Remove_Cas(t) ==
    /\ rcu[t].pc = "rem_cas"
    /\ IF m_head = rcu[t].oldHead
       THEN /\ m_head' = rcu[t].newHead
            /\ rcu' = [rcu EXCEPT ![t] = [IdleRcu EXCEPT !.result = TRUE]]
            /\ CallRetire(t, rcu[t].oldHead)
       ELSE /\ rcu' = [rcu EXCEPT ![t].pc = "rem_new", ![t].oldHead = m_head,
                                  ![t].newHead = Null]
            /\ UNCHANGED <<m_head, dom, passed>>
    /\ UNCHANGED <<hzOwner, hzPtr, rnPointer, rnNext, rnState, m_retiredList,
                   m_retiredCount, freed, hp, hzValid>>
    /\ UNCHANGED <<calls, nodeItems, nodeState>>
    /\ UNCHANGED <<mapVars, aloneVars>>

\* the same failure in the loop of Remove: the copy is made again
Remove_CasSpurious(t) ==
    /\ rcu[t].pc = "rem_cas"
    /\ m_head = rcu[t].oldHead
    /\ Cardinality(Leaked) < MaxSpurious
    /\ rcu' = [rcu EXCEPT ![t].pc = "rem_new", ![t].newHead = Null]
    /\ UNCHANGED domVars
    /\ UNCHANGED <<calls, m_head, nodeItems, nodeState>>
    /\ UNCHANGED <<mapVars, aloneVars>>

\* ---- Clear (RCUList.h 188-193): oldHead = m_head.exchange(nullptr);
\* if (oldHead) RetireNode(oldHead)
Clear(t) ==
    /\ StartCallRCU(t)
    /\ m_head' = Null
    /\ IF m_head # Null THEN CallRetire(t, m_head) ELSE UNCHANGED <<dom, passed>>
    /\ UNCHANGED <<hzOwner, hzPtr, rnPointer, rnNext, rnState, m_retiredList,
                   m_retiredCount, freed, hp, hzValid>>
    /\ UNCHANGED <<nodeItems, nodeState, rcu>>
    /\ UNCHANGED <<mapVars, aloneVars>>

\* ---- GetHazardDomain()->TryCleanup(), the domain's public cleanup
RCU_TryCleanup(t) ==
    /\ StartCallRCU(t)
    /\ CallTryCleanup(t)
    /\ UNCHANGED <<hzOwner, hzPtr, rnPointer, rnNext, rnState, m_retiredList,
                   m_retiredCount, freed, hp, passed, hzValid>>
    /\ UNCHANGED rcuVars
    /\ UNCHANGED <<mapVars, aloneVars>>

InitRCU ==
    /\ DomainInit
    /\ calls = 0
    /\ RCUInit
    /\ MapInit(0)
    /\ MQInit(0)
    /\ PoolInit(0, "Active")
    /\ PipeInit(TRUE)

NextRCU ==
    \E t \in Threads :
        \/ RH_Begin(t)
        \/ RH_Load(t)
        \/ RH_Destroy(t)
        \/ \E x \in Items : Add_Load(t, x)
        \/ Add_New(t)
        \/ Add_Cas(t)
        \/ \E x \in Items : Remove_Load(t, x)
        \/ Remove_New(t)
        \/ Remove_Cas(t)
        \/ Clear(t)
        \/ RCU_TryCleanup(t)
        \/ PP_Scan(t)
        \/ PP_Store(t)
        \/ RN_Begin(t)
        \/ RN_Cas(t)
        \/ RN_Count(t)
        \/ TC_Reset(t)
        \/ TC_Scan(t)
        \/ TC_Exchange(t)
        \/ TC_Load(t)
        \/ TC_Cas(t)
        \/ TC_Count(t)
        \/ TC_Delete(t)

SpecRCU == InitRCU /\ [][NextRCU]_vars

\* C2: the node that a live ReadHandle exposes through Items() is never
\* deleted before the handle is destroyed.
C2_HandleNodeNotDeleted ==
    \A t \in Threads :
        (HandleLive(t) /\ rcu[t].node # Null) => rcu[t].node \notin freed

(***************************************************************************)
(* SpecHP: threads that use the domain directly, in every interleaving of  *)
(* Protect, Reset (UnprotectPointer), RetireNode and TryCleanup.  A        *)
(* pointer is retired at most once.                                        *)
(***************************************************************************)
\* a thread starts a call when it is in none and has calls left
StartCallHP(t) ==
    /\ ~InDomain(t)
    /\ calls < MaxCallsHP
    /\ calls' = calls + 1

HP_Protect(t, p) ==
    /\ StartCallHP(t)
    /\ CallProtect(t, 1, p)
    /\ UNCHANGED <<hzOwner, hzPtr, rnPointer, rnNext, rnState, m_retiredList,
                   m_retiredCount, freed, hp, passed, hzValid>>
    /\ UNCHANGED <<rcuVars, aloneVars, mapVars>>

HP_Unprotect(t) ==
    /\ StartCallHP(t)
    /\ hp[t][1].active
    /\ ResetHazardPointer(t, 1)
    /\ UNCHANGED <<hzOwner, rnPointer, rnNext, rnState, m_retiredList,
                   m_retiredCount, freed, dom, passed>>
    /\ UNCHANGED <<rcuVars, aloneVars, mapVars>>

HP_Retire(t, p) ==
    /\ StartCallHP(t)
    /\ p \notin passed
    /\ CallRetire(t, p)
    /\ UNCHANGED <<hzOwner, hzPtr, rnPointer, rnNext, rnState, m_retiredList,
                   m_retiredCount, freed, hp, hzValid>>
    /\ UNCHANGED <<rcuVars, aloneVars, mapVars>>

HP_TryCleanup(t) ==
    /\ StartCallHP(t)
    /\ CallTryCleanup(t)
    /\ UNCHANGED <<hzOwner, hzPtr, rnPointer, rnNext, rnState, m_retiredList,
                   m_retiredCount, freed, hp, passed, hzValid>>
    /\ UNCHANGED <<rcuVars, aloneVars, mapVars>>

InitHP ==
    /\ DomainInit
    /\ calls = 0
    /\ RCUInit
    /\ MapInit(0)
    /\ MQInit(0)
    /\ PoolInit(0, "Active")
    /\ PipeInit(TRUE)

NextHP ==
    \E t \in Threads :
        \/ \E p \in Ptrs : HP_Protect(t, p)
        \/ HP_Unprotect(t)
        \/ \E p \in Ptrs : HP_Retire(t, p)
        \/ HP_TryCleanup(t)
        \/ PP_Scan(t)
        \/ PP_Store(t)
        \/ RN_Begin(t)
        \/ RN_Cas(t)
        \/ RN_Count(t)
        \/ TC_Reset(t)
        \/ TC_Scan(t)
        \/ TC_Exchange(t)
        \/ TC_Load(t)
        \/ TC_Cas(t)
        \/ TC_Count(t)
        \/ TC_Delete(t)

SpecHP == InitHP /\ [][NextHP]_vars

\* C1: a retired pointer's deleter is never invoked while a hazard slot holds
\* its address, for a slot that was set to the address before the pointer was
\* passed to RetireNode and has not been cleared since.
C1_ProtectedNeverFreed ==
    \A i \in HazardSlots : (hzValid[i] /\ hzPtr[i] # Null) => hzPtr[i] \notin freed

\* the records on the retired list, and those on the toDelete list of thread t
RetiredRecs ==
    LET chain == ChainFrom(rnNext, m_retiredList, NumPtrs) IN
    {chain[k] : k \in 1..Len(chain)}

ToDeleteRecs(t) ==
    LET chain == ChainFrom(rnNext, dom[t].toDelete, NumPtrs) IN
    {chain[k] : k \in 1..Len(chain)}

\* C37: in every interleaving of RetireNode and TryCleanup the deleter of a
\* retired pointer is invoked at most once (TryCleanup deletes only records
\* that are still allocated), and the retired list is acyclic and holds only
\* pending records: none that was deleted, none that a running TryCleanup has
\* taken for deletion.
C37_RetiredListSound ==
    /\ [][\A t \in Threads :
            TC_Delete(t) /\ dom[t].toDelete # 0
            => rnState[dom[t].toDelete] = "live"]_vars
    /\ [](/\ ~Cyclic(rnNext, m_retiredList, NumPtrs)
          /\ \A r \in RetiredRecs :
                /\ rnState[r] = "live"
                /\ \A t \in Threads : r \notin ToDeleteRecs(t))

(***************************************************************************)
(* SpecMap: threads that call Find, Insert and Remove on one bucket of a   *)
(* LoggerMap, and the cleanup of its hazard domain.                        *)
(***************************************************************************)
InitMap ==
    /\ DomainInit
    /\ calls = 0
    /\ RCUInit
    /\ \E k \in 0..NumPtrs : MapInit(k)
    /\ MQInit(0)
    /\ PoolInit(0, "Active")
    /\ PipeInit(TRUE)

NextMap ==
    \E t \in MapThreads :
        \/ \E n \in Names : Find_Begin(t, n)
        \/ Find_Loop(t)
        \/ Find_Validate(t)
        \/ Find_Reload(t)
        \/ Find_Name(t)
        \/ Find_Next(t)
        \/ \E n \in Names : Insert_Begin(t, n)
        \/ Insert_Cas(t)
        \/ \E n \in Names : MapRemove_Begin(t, n)
        \/ MapRemove_Loop(t)
        \/ MapRemove_Validate(t)
        \/ MapRemove_Reload(t)
        \/ MapRemove_Next(t)
        \/ MapRemove_Name(t)
        \/ MapRemove_CasHead(t)
        \/ MapRemove_CasPrev(t)
        \/ MapRemove_End(t)
        \/ Map_TryCleanup(t)
        \/ PP_Scan(t)
        \/ PP_Store(t)
        \/ RN_Begin(t)
        \/ RN_Cas(t)
        \/ RN_Count(t)
        \/ TC_Reset(t)
        \/ TC_Scan(t)
        \/ TC_Exchange(t)
        \/ TC_Load(t)
        \/ TC_Cas(t)
        \/ TC_Count(t)
        \/ TC_Delete(t)

SpecMap == InitMap /\ [][NextMap]_vars

\* C3: no LoggerEntry is read or CAS-ed (its name, its next pointer, or
\* prev->next) after that entry has been deleted.
C3_NoAccessAfterDelete == ~uaf

\* the entries that can be reached from the bucket head
Linked ==
    LET chain == ChainFrom(entNext, bucket, NumPtrs)
    IN {chain[k] : k \in 1..Len(chain)}

\* thread t calls RetireNode in this step
RetireCalled(t) == dom[t].pc # "rn_begin" /\ dom'[t].pc = "rn_begin"

\* C30: under concurrent Remove and Insert calls on one bucket chain, no
\* entry that was handed to RetireNode (as every entry is for which Remove
\* returns true) can be reached from the bucket head, and no entry is handed
\* to RetireNode twice.
C30_RemovedStaysUnlinked ==
    [][/\ (passed \cap Linked)' = {}
       /\ \A t \in MapThreads : RetireCalled(t) => dom'[t].ptr \notin passed]_vars

(***************************************************************************)
(* SpecMQ: producers and consumers on one MessageQueue, constructed with   *)
(* any capacity argument from 0 to MaxCapacity.                            *)
(***************************************************************************)
InitMQ ==
    /\ DomainInit
    /\ calls = 0
    /\ RCUInit
    /\ MapInit(0)
    /\ \E capacity \in 0..MaxCapacity : MQInit(capacity)
    /\ PoolInit(0, "Active")
    /\ PipeInit(TRUE)

NextMQ ==
    \E t \in MQThreads :
        \/ \E message \in {Null} \cup Msgs : TryEnqueue_Begin(t, message)
        \/ TryEnqueue_Seq(t)
        \/ TryEnqueue_Cas(t)
        \/ TryEnqueue_Write(t)
        \/ TryEnqueue_Publish(t)
        \/ TryEnqueue_SizeProducer(t)
        \/ TryEnqueue_SizeConsumer(t)
        \/ TryEnqueue_PeakLoad(t)
        \/ TryEnqueue_PeakStore(t)
        \/ TryDequeue_Begin(t)
        \/ TryDequeue_Seq(t)
        \/ TryDequeue_Cas(t)
        \/ TryDequeue_Read(t)
        \/ TryDequeue_Clear(t)
        \/ TryDequeue_Publish(t)

SpecMQ == InitMQ /\ [][NextMQ]_vars

\* C4: the number of successful enqueues minus the number of successful
\* dequeues is always between 0 and the capacity of the queue, inclusive.
C4_SizeWithinCapacity == (nEnq - nDeq) \in 0..m_capacity

\* C5: every pointer that a successful TryDequeue returns for a consumer
\* position is the pointer that TryEnqueue accepted at that producer position,
\* so nothing is lost, duplicated, reordered or invented.
C5_Fifo ==
    \A r \in returned : r[1] + 1 <= Len(accepted) /\ r[2] = accepted[r[1] + 1]


(***************************************************************************)
(* SpecPool: threads that call Acquire and Release on one MessagePool.     *)
(***************************************************************************)
InitPool ==
    /\ DomainInit
    /\ calls = 0
    /\ RCUInit
    /\ MapInit(0)
    /\ MQInit(0)
    /\ \E fill \in 0..2 : PoolInit(fill, "Active")
    /\ PipeInit(TRUE)

NextPool ==
    \E t \in LogThreads :
        \/ Pool_Acquire(t)
        \/ \E m \in Messages : Pool_Release(t, m)
        \/ Acquire_Tls(t)
        \/ Acquire_NumChunks(t)
        \/ Acquire_NextIndex(t)
        \/ Acquire_Scan(t)
        \/ Acquire_SizeAdd(t)
        \/ Acquire_SizeLoad(t)
        \/ Acquire_PeakLoad(t)
        \/ Acquire_PeakStore(t)
        \/ Acquire_State(t)
        \/ Acquire_Ref(t)
        \/ Acquire_Lock(t)
        \/ Acquire_SlowScan(t)
        \/ Acquire_Grow(t)
        \/ Acquire_CapacityAdd(t)
        \/ Acquire_UseFirst(t)
        \/ Release_Cas(t)
        \/ Release_Load(t)
        \/ Release_Store(t)
        \/ Finalize_State(t)
        \/ Finalize_Find(t)
        \/ ResetMessage_Fields(t)
        \/ ResetMessage_State(t)
        \/ ResetMessage_Ref(t)
        \/ Finalize_Tls(t)
        \/ Finalize_Exchange(t)
        \/ Finalize_SizeSub(t)

SpecPool == InitPool /\ [][NextPool]_vars

\* C6: no Message slot is held by two acquirers at once: between an Acquire
\* that returns a slot and the finalization of that slot, no other Acquire
\* returns the same slot.
C6_NoSlotAcquiredTwice == \A m \in Messages : acquired[m] <= 1

\* a FinalizeRelease of thread t for a Message of another thread's cache is
\* about to return
ForeignFinalize(t) ==
    /\ pl[t].pc = "f_find"
    /\ pl[t].msg[1] = "tls"
    /\ pl[t].msg[2] # t

\* C31: when FinalizeRelease runs on a thread other than the one from whose
\* thread-local cache the Message was acquired, it returns with the Message
\* reset to Pooled and the cache slot marked free.
C31_ForeignFinalizeFreesSlot ==
    [][\A t \in PoolThreads :
         ForeignFinalize(t) /\ pl'[t].pc = "idle"
         => msgState'[pl[t].msg] = "Pooled" /\ ~used'[pl[t].msg]]_vars


(***************************************************************************)
(* SpecPipe: threads that call Logger::Log and the workers of the thread   *)
(* pool, on one MessagePool.  The pool starts fresh or with messages that  *)
(* earlier Log calls acquired and the workers processed; the thread pool   *)
(* is running, or it has been shut down and its workers have exited.       *)
(***************************************************************************)
InitPipe ==
    /\ DomainInit
    /\ calls = 0
    /\ RCUInit
    /\ MapInit(0)
    /\ MQInit(0)
    /\ \E fill \in 0..2 : PoolInit(fill, "Releasing")
    /\ \E running \in BOOLEAN : PipeInit(running)

\* the steps of one thread
PipeStep(t) ==
    \/ \E level \in LogLevels, msgEmpty \in BOOLEAN :
           t \in LogThreads /\ Log_Begin(t, level, msgEmpty)
    \/ t \in LogThreads /\
         (Log_Fields(t) \/ Log_GetThreadPool(t) \/ Enqueue_Running(t) \/ Enqueue_Flushing(t)
            \/ Enqueue_IsActive(t) \/ Enqueue_AddRef(t) \/ Enqueue_Select(t)
            \/ Enqueue_Push(t) \/ Log_Total(t))
    \/ t \in Workers /\
         (Worker_Wait(t) \/ Worker_IsActive(t) \/ Worker_Logger(t)
            \/ Process_IsActive(t) \/ Process_Handle(t) \/ Process_OutputCall(t)
            \/ Process_OutputReturn(t) \/ Process_Release(t)
            \/ Worker_ReleaseRef(t) \/ Worker_State(t))
    \/ Acquire_Tls(t) \/ Acquire_NumChunks(t) \/ Acquire_NextIndex(t)
    \/ Acquire_Scan(t) \/ Acquire_SizeAdd(t) \/ Acquire_SizeLoad(t)
    \/ Acquire_PeakLoad(t) \/ Acquire_PeakStore(t) \/ Acquire_State(t)
    \/ Acquire_Ref(t) \/ Acquire_Lock(t) \/ Acquire_SlowScan(t)
    \/ Acquire_Grow(t) \/ Acquire_CapacityAdd(t) \/ Acquire_UseFirst(t)
    \/ Release_Cas(t) \/ Release_Load(t) \/ Release_Store(t)
    \/ Finalize_State(t) \/ Finalize_Find(t) \/ ResetMessage_Fields(t)
    \/ ResetMessage_State(t) \/ ResetMessage_Ref(t) \/ Finalize_Tls(t)
    \/ Finalize_Exchange(t) \/ Finalize_SizeSub(t)

NextPipe ==
    \/ \E t \in LogThreads :
        \/ \E level \in LogLevels, msgEmpty \in BOOLEAN : Log_Begin(t, level, msgEmpty)
        \/ Log_Fields(t)
        \/ Log_GetThreadPool(t)
        \/ Enqueue_Running(t)
        \/ Enqueue_Flushing(t)
        \/ Enqueue_IsActive(t)
        \/ Enqueue_AddRef(t)
        \/ Enqueue_Select(t)
        \/ Enqueue_Push(t)
        \/ Log_Total(t)
    \/ \E w \in Workers :
        \/ Worker_Wait(w)
        \/ Worker_IsActive(w)
        \/ Worker_Logger(w)
        \/ Process_IsActive(w)
        \/ Process_Handle(w)
        \/ Process_OutputCall(w)
        \/ Process_OutputReturn(w)
        \/ Process_Release(w)
        \/ Worker_ReleaseRef(w)
        \/ Worker_State(w)
    \/ \E t \in PoolThreads :
        \/ Acquire_Tls(t)
        \/ Acquire_NumChunks(t)
        \/ Acquire_NextIndex(t)
        \/ Acquire_Scan(t)
        \/ Acquire_SizeAdd(t)
        \/ Acquire_SizeLoad(t)
        \/ Acquire_PeakLoad(t)
        \/ Acquire_PeakStore(t)
        \/ Acquire_State(t)
        \/ Acquire_Ref(t)
        \/ Acquire_Lock(t)
        \/ Acquire_SlowScan(t)
        \/ Acquire_Grow(t)
        \/ Acquire_CapacityAdd(t)
        \/ Acquire_UseFirst(t)
        \/ Release_Cas(t)
        \/ Release_Load(t)
        \/ Release_Store(t)
        \/ Finalize_State(t)
        \/ Finalize_Find(t)
        \/ ResetMessage_Fields(t)
        \/ ResetMessage_State(t)
        \/ ResetMessage_Ref(t)
        \/ Finalize_Tls(t)
        \/ Finalize_Exchange(t)
        \/ Finalize_SizeSub(t)

\* every thread that can take a step eventually takes one: the operating
\* system schedules the logging threads and the workers keep running
PipeFairness == \A t \in PoolThreads : WF_vars(PipeStep(t))

SpecPipe == InitPipe /\ [][NextPipe]_vars /\ PipeFairness

\* C7: every message that Log acquired and that a worker has processed with
\* ProcessMessage eventually is back in state Pooled with its in-use flag
\* cleared.
C7_ProcessedReturnsToPool ==
    \A m \in Messages :
        (m \in processed) ~> (msgState[m] = "Pooled" /\ ~used[m])

\* C10: while a worker is inside a sink's Output call for a Message, that
\* Message is in state Active and its reference count is at least 1.
C10_OutputSeesActive ==
    \A w \in Workers :
        wk[w].pc = "p_output" =>
            msgState[wk[w].msg] = "Active" /\ refCount[wk[w].msg] >= 1


\* C8: every change of a Message's state is Pooled to Active, Active to
\* Releasing, or Releasing to Pooled.
C8_LegalTransitions ==
    [][\A m \in Messages :
          msgState'[m] # msgState[m] =>
              <<msgState[m], msgState'[m]>> \in {<<"Pooled", "Active">>,
                                                <<"Active", "Releasing">>,
                                                <<"Releasing", "Pooled">>}]_vars

\* C9: at every instant the in-use flag of a slot is true if and only if the
\* state of its Message is not Pooled.
C9_InUseIffNotPooled ==
    \A m \in Messages : used[m] <=> (msgState[m] # "Pooled")

\* worker w holds an item that it has popped from its queue
HasItem(w) == wk[w].msg # NoMessage

\* C32: a worker goes on from a popped item to the next one only after its
\* ReleaseRef for the item, also when the Message of the item is not Active
\* or has no logger.
C32_PoppedItemReleased ==
    [][\A w \in Workers :
         HasItem(w) /\ ~HasItem(w)' => wk[w].pc \in {"w_releaseref", "w_state"}]_vars


(***************************************************************************)
(* SpecShut: threads that call Logger::Log while one thread calls          *)
(* LogManager::Shutdown, with or without waiting, on a running manager     *)
(* whose thread pool has one worker.  The message pool starts fresh, or    *)
(* full and grown by two Log calls that Acquire gave the same Message.     *)
(***************************************************************************)
\* Log calls of a run of SpecShut
MaxCallsShut == 2

\* the frames of two threads whose Log calls, the first two of the run, are
\* at the return of Acquire
LoggingAtFields ==
    [t \in LogThreads |-> [IdleLog EXCEPT !.pc = "l_fields", !.level = LevelInfo,
                                          !.rec = <<t, LevelInfo, t>>]]

InitShut ==
    /\ DomainInit
    /\ RCUInit
    /\ MapInit(0)
    /\ MQInit(0)
    /\ \/ /\ calls = 0
          /\ PoolInit(0, "Releasing")
          /\ ThreadPoolInit(1, TRUE)
       \/ /\ calls = MaxCallsShut
          /\ PoolInitAliased
          /\ ThreadPoolStart(1, TRUE, LoggingAtFields)
    /\ ManagerInit

\* the steps of a logging thread or a worker, in the thread pool and in the
\* message pool; the pool does not grow in a run
ShutThreadStep(t) ==
    \/ t \in LogThreads /\
         (Log_Fields(t) \/ Log_GetThreadPool(t) \/ Enqueue_Running(t) \/ Enqueue_Flushing(t)
            \/ Enqueue_IsActive(t) \/ Enqueue_AddRef(t) \/ Enqueue_Select(t)
            \/ Enqueue_Push(t) \/ Log_Total(t) \/ Enqueue_Deleted(t))
    \/ t \in Workers /\
         (Worker_Wait(t) \/ Worker_IsActive(t) \/ Worker_Logger(t)
            \/ Process_IsActive(t) \/ Process_Handle(t) \/ Process_OutputCall(t)
            \/ Process_OutputReturn(t) \/ Process_Release(t)
            \/ Worker_ReleaseRef(t) \/ Worker_State(t)
            \/ Worker_CleanupLock(t) \/ Worker_Cleanup(t))
    \/ Acquire_Tls(t) \/ Acquire_NumChunks(t) \/ Acquire_NextIndex(t)
    \/ Acquire_Scan(t) \/ Acquire_SizeAdd(t) \/ Acquire_SizeLoad(t)
    \/ Acquire_PeakLoad(t) \/ Acquire_PeakStore(t) \/ Acquire_State(t)
    \/ Acquire_Ref(t)
    \/ Release_Cas(t) \/ Release_Load(t) \/ Release_Store(t)
    \/ Finalize_State(t) \/ Finalize_Find(t) \/ ResetMessage_Fields(t)
    \/ ResetMessage_State(t) \/ ResetMessage_Ref(t) \/ Finalize_Tls(t)
    \/ Finalize_Exchange(t) \/ Finalize_SizeSub(t)

\* the steps of a controlling thread inside LogManager::Shutdown, when no
\* other thread calls it
MgrShutdownStep(c) ==
    \/ MgrShutdown_Cas(c) \/ MgrShutdown_Wait(c)
    \/ MgrShutdown_Exchange(c) \/ MgrShutdown_Delete(c) \/ MgrShutdown_Clear(c)
    \/ MgrShutdown_State(c)
    \/ Flush_Snapshot(c) \/ Flush_Poll(c) \/ Flush_Read(c)
    \/ Shutdown_Running(c) \/ Shutdown_FlushOn(c) \/ Shutdown_FlushOff(c)
    \/ Shutdown_Notify(c) \/ Shutdown_Join(c)

NextShut ==
    \/ \E t \in LogThreads : Log_Call(t, LevelInfo, FALSE, MaxCallsShut)
    \/ \E t \in PoolThreads : ShutThreadStep(t)
    \/ \E wait \in BOOLEAN : Mgr_Shutdown(1, wait)
    \/ MgrShutdownStep(1)

SpecShut == InitShut /\ [][NextShut]_vars

\* how many times record r was handed to a sink
RECURSIVE Delivered(_, _)
Delivered(log, r) ==
    IF log = <<>> THEN 0
    ELSE (IF log[1] = r THEN 1 ELSE 0) + Delivered(Tail(log), r)

\* a LogManager::Shutdown(wait = true) call of c has returned Ok and neither
\* its Flush calls nor its joins ran into the timeout
ShutdownOk(c) ==
    /\ ct[c].op = "LogManager::Shutdown"
    /\ ct[c].pc = "done"
    /\ ct[c].ret = "Ok"
    /\ ct[c].wait
    /\ ~ct[c].timedOut

\* C11: when LogManager::Shutdown(wait = true) has returned Ok without a
\* timeout, every record whose Log call returned true before Shutdown was
\* called has been delivered to each sink of its logger exactly once.
C11_ShutdownDeliversAll ==
    \A c \in Controllers :
        ShutdownOk(c) => \A r \in ct[c].owed : Delivered(sinkLog, r) = NumSinks

\* the Log call of t is at a step of EnqueueMessage that reads the members of
\* the thread pool that GetThreadPool returned
InThreadPool(t) == lg[t].pc \in {"l_running", "l_flushing", "l_select", "l_push"}

\* C39: a Log call that races with LogManager::Shutdown never dereferences a
\* null thread pool and never runs EnqueueMessage on a thread pool that
\* Shutdown has deleted.
C39_LogUsesLivePool ==
    \A t \in LogThreads :
        /\ lg[t].pc # "crash"
        /\ InThreadPool(t) => deletes = 0


(***************************************************************************)
(* SpecFlush: one producer that calls Logger::Log at the levels Info, Warn *)
(* and Error on a thread pool with a single worker queue, and a thread     *)
(* that calls LoggerThreadPool::Flush.                                     *)
(***************************************************************************)
\* Log calls of a run of SpecFlush
MaxCallsFlush == 3

\* Level::Warn and Level::Error
LevelWarn == 3
LevelError == 4

InitFlush ==
    /\ DomainInit
    /\ calls = 0
    /\ RCUInit
    /\ MapInit(0)
    /\ MQInit(0)
    /\ PoolInit(0, "Releasing")
    /\ ThreadPoolInit(1, TRUE)
    /\ ManagerInit

NextFlush ==
    \/ \E level \in {LevelInfo, LevelWarn, LevelError} :
           Log_Call(1, level, FALSE, MaxCallsFlush)
    \/ Log_Fields(1)
    \/ Log_GetThreadPool(1)
    \/ Enqueue_Running(1)
    \/ Enqueue_Flushing(1)
    \/ Enqueue_IsActive(1)
    \/ Enqueue_AddRef(1)
    \/ Enqueue_Select(1)
    \/ Enqueue_Push(1)
    \/ Log_Total(1)
    \/ \E w \in Workers :
        \/ Worker_Wait(w)
        \/ Worker_IsActive(w)
        \/ Worker_Logger(w)
        \/ Process_IsActive(w)
        \/ Process_Handle(w)
        \/ Process_OutputCall(w)
        \/ Process_OutputReturn(w)
        \/ Process_Release(w)
        \/ Worker_ReleaseRef(w)
    \/ \E t \in PoolThreads :
        \/ Acquire_Tls(t)
        \/ Acquire_NumChunks(t)
        \/ Acquire_NextIndex(t)
        \/ Acquire_Scan(t)
        \/ Acquire_SizeAdd(t)
        \/ Acquire_SizeLoad(t)
        \/ Acquire_PeakLoad(t)
        \/ Acquire_PeakStore(t)
        \/ Acquire_State(t)
        \/ Acquire_Ref(t)
        \/ Acquire_Lock(t)
        \/ Acquire_SlowScan(t)
        \/ Acquire_Grow(t)
        \/ Acquire_CapacityAdd(t)
        \/ Acquire_UseFirst(t)
        \/ Release_Cas(t)
        \/ Release_Load(t)
    \/ Ctl_Flush(1)
    \/ Flush_Snapshot(1)
    \/ Flush_Poll(1)
    \/ Flush_Read(1)

SpecFlush == InitFlush /\ [][NextFlush]_vars

\* a Flush call of c has returned and did not run into its timeout
FlushReturned(c) ==
    /\ ct[c].op = "Flush"
    /\ ct[c].pc = "done"
    /\ ~ct[c].timedOut

\* C12: when Flush has returned without timing out, Sink::Output has
\* returned for every message whose EnqueueMessage completed before Flush
\* was called.
C12_FlushWaitsForOutput ==
    \A c \in Controllers :
        FlushReturned(c) => \A r \in ct[c].owed : Delivered(sinkLog, r) >= 1

\* a step that pops the top of queue q
Pops(q) == Len(messageQueue'[q]) < Len(messageQueue[q])

\* C13: when a worker pops an item, no item of the same level is in its
\* queue that was pushed earlier: messages of equal level leave a queue in
\* the order they were pushed.
C13_FifoWithinLevel ==
    [][\A q \in Queues :
          Pops(q) =>
              \A k \in 1..Len(messageQueue[q]) :
                  messageQueue[q][k][2] = messageQueue[q][1][2]
                      => messageQueue[q][k][3] >= messageQueue[q][1][3]]_vars

\* the records of Info("a"), Warn("b"), Error("c"), logged in this order by
\* thread 1 as the first calls of the run
RecordA == <<1, LevelInfo, 1>>
RecordB == <<2, LevelWarn, 1>>
RecordC == <<3, LevelError, 1>>

\* C14: with a single worker queue, when Flush has returned after one
\* producer logged Info("a"), Warn("b"), Error("c"), the sink has received
\* exactly the three records, in the order c, b, a.
C14_PriorityOrder ==
    \A c \in Controllers :
        FlushReturned(c) /\ ct[c].owed = {RecordA, RecordB, RecordC}
            => sinkLog = <<RecordC, RecordB, RecordA>>


(***************************************************************************)
(* SpecReg: threads that call LogManager::GetLogger and RegisterLogger     *)
(* with names of one bucket, on a running manager whose registry is empty  *)
(* or holds one logger.                                                    *)
(***************************************************************************)
InitReg ==
    /\ DomainInit
    /\ calls = 0
    /\ RCUInit
    /\ \E k \in 0..1 : MapInit(k)
    /\ MQInit(0)
    /\ PoolInit(0, "Active")
    /\ PipeInit(TRUE)

NextReg ==
    \E t \in MapThreads :
        \/ \E n \in Names : GetLogger_Begin(t, n)
        \/ \E n \in Names : RegisterLogger_Begin(t, n)
        \/ Register_State(t)
        \/ Register_Create(t)
        \/ Find_Loop(t)
        \/ Find_Validate(t)
        \/ Find_Reload(t)
        \/ Find_Name(t)
        \/ Find_Next(t)
        \/ Insert_Cas(t)
        \/ PP_Scan(t)
        \/ PP_Store(t)

SpecReg == InitReg /\ [][NextReg]_vars

\* no thread is inside a call on the registry
RegistryQuiet == \A t \in MapThreads : mp[t].pc = "idle"

\* the entries of the bucket chain with name n
EntriesNamed(n) ==
    LET chain == ChainFrom(entNext, bucket, NumPtrs)
    IN {chain[k] : k \in {j \in 1..Len(chain) : entName[chain[j]] = n}}

\* C15: when the GetLogger and RegisterLogger calls of all threads have
\* returned, the registry holds exactly one entry for each name that was
\* asked for, and all calls for the same name returned the same Logger.
C15_OneLoggerPerName ==
    RegistryQuiet =>
        /\ \A a \in got : Cardinality(EntriesNamed(a[1])) = 1
        /\ \A a, b \in got : a[1] = b[1] => a[2] = b[2]


(***************************************************************************)
(* SpecFind: threads that call LoggerMap::Find on a bucket chain of zero,  *)
(* one or two entries that no thread changes.  A thread inside Find keeps  *)
(* taking steps.                                                           *)
(***************************************************************************)
InitFind ==
    /\ DomainInit
    /\ calls = 0
    /\ RCUInit
    /\ \E k \in 0..NumPtrs : MapInit(k)
    /\ MQInit(0)
    /\ PoolInit(0, "Active")
    /\ PipeInit(TRUE)

\* the steps of thread t inside Find and inside the Protect call of Find
FindStep(t) ==
    \/ Find_Loop(t)
    \/ Find_Validate(t)
    \/ Find_Reload(t)
    \/ Find_Name(t)
    \/ Find_Next(t)
    \/ PP_Scan(t)
    \/ PP_Store(t)

NextFind ==
    \E t \in MapThreads :
        \/ \E n \in Names : Find_Begin(t, n)
        \/ Find_Loop(t)
        \/ Find_Validate(t)
        \/ Find_Reload(t)
        \/ Find_Name(t)
        \/ Find_Next(t)
        \/ PP_Scan(t)
        \/ PP_Store(t)

SpecFind ==
    InitFind /\ [][NextFind]_vars /\ \A t \in MapThreads : WF_vars(FindStep(t))

\* thread t is inside Find
InFind(t) == mp[t].pc \in {"f_loop", "f_validate", "f_reload", "f_name", "f_next"}

\* C16: every Find call returns, whatever the length of the chain and the
\* position of the match.
C16_FindTerminates ==
    \A t \in MapThreads : InFind(t) ~> (mp[t].pc = "idle")


(***************************************************************************)
(* SpecResize: threads that call LoggerThreadPool::Resize and              *)
(* Shutdown(false) on a running thread pool of one or two workers with     *)
(* empty queues.  The workers and the threads inside a call keep taking    *)
(* steps; whether and when a call is made is up to the caller.             *)
(***************************************************************************)
InitResize ==
    /\ DomainInit
    /\ calls = 0
    /\ RCUInit
    /\ MapInit(0)
    /\ MQInit(0)
    /\ PoolInit(0, "Active")
    /\ \E threadCount \in 1..NumWorkers : ThreadPoolInit(threadCount, TRUE)
    /\ ManagerInit

\* the steps of worker w when nothing is ever queued
IdleWorkerStep(w) ==
    \/ Worker_Wait(w)
    \/ Worker_CleanupLock(w)
    \/ Worker_Cleanup(w)

\* the steps of controlling thread c inside Resize and Shutdown(false)
ResizeStep(c) ==
    \/ Resize_Lock(c)
    \/ Resize_Running(c)
    \/ Resize_Join(c)
    \/ Shutdown_Running(c)
    \/ Shutdown_Notify(c)
    \/ Shutdown_Join(c)

NextResize ==
    \/ \E c \in Controllers :
        \/ \E n \in 0..NumWorkers : Ctl_Resize(c, n)
        \/ Ctl_Shutdown(c, FALSE)
        \/ Resize_Lock(c)
        \/ Resize_Running(c)
        \/ Resize_Join(c)
        \/ Shutdown_Running(c)
        \/ Shutdown_Notify(c)
        \/ Shutdown_Join(c)
    \/ \E w \in Workers :
        \/ Worker_Wait(w)
        \/ Worker_CleanupLock(w)
        \/ Worker_Cleanup(w)

SpecResize ==
    /\ InitResize
    /\ [][NextResize]_vars
    /\ \A c \in Controllers : WF_vars(ResizeStep(c))
    /\ \A w \in Workers : WF_vars(IdleWorkerStep(w))

\* Resize of c found the pool running with more workers than asked for and
\* waits for the excess workers
Shrinking(c) == ct[c].op = "Resize" /\ ct[c].pc = "rs_join"

\* C17: a Resize to fewer workers on a running pool eventually returns true
\* with exactly the new number of workers left.
C17_ShrinkReturns ==
    \A c \in Controllers :
        Shrinking(c) ~> (ct[c].pc = "done" /\ ct[c].ret = "true"
                           /\ m_workers = ct[c].n)


(***************************************************************************)
(* SpecStop: one producer that calls Logger::Log while a thread calls      *)
(* LoggerThreadPool::Shutdown, with or without a flush, on a running       *)
(* thread pool with one worker.  The pool object stays alive and the       *)
(* message pool does not grow.                                             *)
(***************************************************************************)
\* Log calls of a run of SpecStop
MaxCallsStop == 2

InitStop ==
    /\ DomainInit
    /\ calls = 0
    /\ RCUInit
    /\ MapInit(0)
    /\ MQInit(0)
    /\ PoolInit(0, "Releasing")
    /\ ThreadPoolInit(1, TRUE)
    /\ ManagerInit

NextStop ==
    \/ \E level \in {LevelInfo, LevelWarn} : Log_Call(1, level, FALSE, MaxCallsStop)
    \/ Log_Fields(1)
    \/ Log_GetThreadPool(1)
    \/ Enqueue_Running(1)
    \/ Enqueue_Flushing(1)
    \/ Enqueue_IsActive(1)
    \/ Enqueue_AddRef(1)
    \/ Enqueue_Select(1)
    \/ Enqueue_Push(1)
    \/ Log_Total(1)
    \/ \E w \in Workers :
        \/ Worker_Wait(w)
        \/ Worker_IsActive(w)
        \/ Worker_Logger(w)
        \/ Process_IsActive(w)
        \/ Process_Handle(w)
        \/ Process_OutputCall(w)
        \/ Process_OutputReturn(w)
        \/ Process_Release(w)
        \/ Worker_ReleaseRef(w)
        \/ Worker_CleanupLock(w)
        \/ Worker_Cleanup(w)
    \/ \E t \in PoolThreads :
        \/ Acquire_Tls(t)
        \/ Acquire_NumChunks(t)
        \/ Acquire_NextIndex(t)
        \/ Acquire_Scan(t)
        \/ Acquire_SizeAdd(t)
        \/ Acquire_SizeLoad(t)
        \/ Acquire_PeakLoad(t)
        \/ Acquire_PeakStore(t)
        \/ Acquire_State(t)
        \/ Acquire_Ref(t)
        \/ Release_Cas(t)
        \/ Release_Load(t)
        \/ Release_Store(t)
        \/ Finalize_State(t)
        \/ Finalize_Find(t)
        \/ ResetMessage_Fields(t)
        \/ ResetMessage_State(t)
        \/ ResetMessage_Ref(t)
        \/ Finalize_Tls(t)
        \/ Finalize_Exchange(t)
        \/ Finalize_SizeSub(t)
    \/ \E flush \in BOOLEAN : Ctl_Shutdown(1, flush)
    \/ Flush_Snapshot(1)
    \/ Flush_Poll(1)
    \/ Flush_Read(1)
    \/ Shutdown_Running(1)
    \/ Shutdown_FlushOn(1)
    \/ Shutdown_FlushOff(1)
    \/ Shutdown_Notify(1)
    \/ Shutdown_Join(1)

SpecStop == InitStop /\ [][NextStop]_vars

\* C18: once LoggerThreadPool::Shutdown has returned, having joined every
\* worker within the timeout, no message is left in any worker queue.
C18_QueuesEmptyAfterShutdown ==
    \A c \in Controllers :
        ct[c].sdReturned /\ ~ct[c].timedOut
            => \A q \in Queues : messageQueue[q] = <<>>

\* C19: a Log call returns true only for a record that was pushed onto a
\* worker queue; no record is released unpushed while Log reports success
\* and the dropped-message counter stays as it was.
C19_NoSilentDrop ==
    \A r \in logTrue : r \in pushedRecs \/ m_droppedMessages > 0

(***************************************************************************)
(* SpecLife: the life cycle of the LogManager.  One thread runs            *)
(* Initialize on the constructed manager while two threads call            *)
(* LogManager::Shutdown, each once, with or without waiting.  No thread    *)
(* logs; the thread pool has one worker.                                   *)
(***************************************************************************)
InitLife ==
    /\ DomainInit
    /\ calls = 0
    /\ RCUInit
    /\ MapInit(0)
    /\ MQInit(0)
    /\ PoolInit(0, "Releasing")
    /\ ThreadPoolInit(1, TRUE)
    /\ m_state = "Uninitialized"
    /\ m_threadPool = FALSE
    /\ teardowns = 0
    /\ deletes = 0
    /\ once = OnceClear
    /\ m_loggerMap = FALSE
    /\ loggerSinks = [p \in Ptrs |-> <<>>]
    /\ StrInit
    /\ drawn = NoInput

NextLife ==
    \/ Initialize_Cas
    \/ Initialize_Create
    \/ Initialize_Running
    \/ \E c \in Controllers :
        \/ \E wait \in BOOLEAN : Mgr_Shutdown(c, wait)
        \/ MgrShutdown_Cas(c)
        \/ MgrShutdown_Load(c)
        \/ MgrShutdown_Wait(c)
        \/ MgrShutdown_Exchange(c)
        \/ MgrShutdown_Delete(c)
        \/ MgrShutdown_Clear(c)
        \/ MgrShutdown_State(c)
        \/ Flush_Snapshot(c)
        \/ Shutdown_Running(c)
        \/ Shutdown_FlushOn(c)
        \/ Shutdown_FlushOff(c)
        \/ Shutdown_Notify(c)
        \/ Shutdown_Join(c)
        \/ Ctl_Deleted(c)
    \/ \E w \in Workers :
        \/ Worker_Wait(w)
        \/ Worker_CleanupLock(w)
        \/ Worker_Cleanup(w)

SpecLife == InitLife /\ [][NextLife]_vars

\* C20: at most one LogManager::Shutdown call goes past the state check and
\* tears the manager down, whether the calls follow each other or race;
\* every other call returns an error and the thread pool is deleted at most
\* once.
C20_OneTeardown ==
    /\ teardowns <= 1
    /\ deletes <= 1
    /\ \A c, d \in Controllers :
           ct[c].ret = "Ok" /\ ct[d].ret = "Ok" => c = d

(***************************************************************************)
(* SpecMgr: the calls of the life cycle.  Two threads call Initialize,     *)
(* Shutdown, ShutdownAll and ResetAll on a constructed LogManager, one     *)
(* call after the other and against each other; an allocation inside      *)
(* Initialize may fail.  No thread logs; the thread pool has one worker.   *)
(***************************************************************************)
\* calls that the threads of a run of SpecMgr make after their first ones
MaxCallsMgr == 2

InitMgr == InitLife

MgrCallStep(c) ==
    \/ Init_Once(c) \/ Init_Load(c) \/ Init_Cas(c) \/ Init_Err(c)
    \/ Init_Create(c) \/ Init_Pool(c) \/ Init_Default(c) \/ Init_Running(c)
    \/ Init_Catch(c) \/ Init_Result(c)
    \/ SA_Load(c) \/ SA_Cas(c) \/ SA_Exchange(c) \/ SA_Delete(c) \/ SA_Clear(c)
    \/ SA_ClearNull(c) \/ SA_State(c)
    \/ RA_Load(c) \/ RA_Store(c)
    \/ MgrShutdown_Cas(c) \/ MgrShutdown_Load(c) \/ MgrShutdown_Wait(c)
    \/ MgrShutdown_Exchange(c) \/ MgrShutdown_Delete(c) \/ MgrShutdown_Clear(c)
    \/ MgrShutdown_State(c)
    \/ Flush_Snapshot(c)
    \/ Shutdown_Running(c) \/ Shutdown_FlushOn(c) \/ Shutdown_FlushOff(c)
    \/ Shutdown_Notify(c) \/ Shutdown_Join(c)
    \/ Ctl_Deleted(c)

NextMgr ==
    \/ \E c \in Controllers :
        \/ Mgr_Initialize(c)
        \/ \E wait \in BOOLEAN : Mgr_Shutdown(c, wait)
        \/ Mgr_ShutdownAll(c)
        \/ Mgr_ResetAll(c)
        \/ Ctl_Next(c, MaxCallsMgr)
        \/ MgrCallStep(c)
    \/ \E w \in Workers :
        \/ Worker_Wait(w)
        \/ Worker_CleanupLock(w)
        \/ Worker_Cleanup(w)

SpecMgr == InitMgr /\ [][NextMgr]_vars

\* the steps of m_state that the life cycle allows: forward along the five
\* states, back from Initializing when initialization fails, and to ShutDown
StateSteps ==
    {<<"Uninitialized", "Initializing">>, <<"Initializing", "Running">>,
     <<"Running", "ShuttingDown">>, <<"ShuttingDown", "ShutDown">>,
     <<"Initializing", "Uninitialized">>}
        \cup {<<st, "ShutDown">> : st \in {"Uninitialized", "Initializing", "Running"}}

\* C21: every change of the manager's state is one of the allowed steps; in
\* particular the state never leaves ShutDown and never goes from
\* ShuttingDown back to Running.
C21_StateOrder ==
    [][m_state' # m_state => <<m_state, m_state'>> \in StateSteps]_vars

\* C22: an Initialize call made when the state is ShutDown returns an error
\* and leaves the state ShutDown.
C22_InitializeAfterShutdown ==
    [][\A c \in Controllers :
          /\ ct[c].op = "Initialize"
          /\ ct[c].seen = "ShutDown"
          /\ ct[c].pc # "done"
          /\ ct'[c].pc = "done"
          => ct'[c].ret = "Err" /\ m_state' = "ShutDown"]_vars

\* an Initialize call of c has returned
InitializeDone(c) == ct[c].op = "Initialize" /\ ct[c].pc = "done"

\* C23: however many Initialize calls are made, the body runs at most once,
\* it has run when a call returns, at most one default logger is ever
\* created, and every call returns the result that the run of the body left
\* in initResult.
C23_InitializeOnce ==
    /\ once.bodies <= 1
    /\ Cardinality({p \in Ptrs : entState[p] # "free"}) <= 1
    /\ \A c \in Controllers :
           InitializeDone(c) => /\ once.bodies = 1
                                /\ once.flag = "done"
                                /\ ct[c].ret = once.result

\* two Initialize calls have returned, after one run of the body that went
\* through to Running
C23_Witness ==
    /\ \A c \in Controllers : InitializeDone(c) /\ ct[c].ret = "Ok"
    /\ once.bodies = 1
    /\ entState[1] = "live"

\* C24: an Initialize call in which a step threw returns an error, and at
\* its return the state is Uninitialized and no thread pool is left.
C24_FailedInitialize ==
    [][\A c \in Controllers :
          /\ ct[c].op = "Initialize"
          /\ ct[c].pc # "done"
          /\ ct'[c].pc = "done"
          /\ ct'[c].threw
          => ct'[c].ret = "Err" /\ m_state' = "Uninitialized" /\ ~m_threadPool']_vars

\* a ResetAll call of c returns in this step; it returns from its first load
\* when the state it saw was not Running
ResetAllReturns(c) ==
    /\ ct[c].op = "ResetAll"
    /\ ct[c].pc # "done"
    /\ ct'[c].pc = "done"

\* C40: a ResetAll call that saw the state Running leaves, at its return, the
\* state Running, a thread pool and the default logger in the logger map; a
\* call that saw any other state changes nothing.
C40_ResetAll ==
    [][\A c \in Controllers :
          ResetAllReturns(c) =>
            IF ct[c].pc = "ra_load"
            THEN UNCHANGED <<m_state, m_threadPool, m_loggerMap, bucket, entName,
                             entNext, entState, deletes>>
            ELSE /\ m_state' = "Running"
                 /\ m_threadPool'
                 /\ bucket' # Null
                 /\ entName'[bucket'] = InitialName(1)]_vars

\* ---- LogManager::RegisterSink (LogManager.cpp 394-405): it returns unless
\* the state is Running and the sink is not null; m_globalSinks.Add(sink).
\* The loggers that exist are not visited.
RegisterSink_Begin(t, s) ==
    /\ mp[t].pc = "idle"
    /\ IF m_state # "Running" \/ s = MovedFrom
       THEN /\ StartCallRCU(t)
            /\ UNCHANGED <<domVars, rcuVars, mapVars, aloneVars>>
       ELSE Add_Load(t, s)

\* ---- RegisterLogger after Find returned nothing (LogManager.cpp 349-355):
\* the Logger is made; sinkHandle = m_globalSinks.GetReadHandle(), whose
\* constructor (RCUList.h 54-64) loads the head and protects it
Register_Handle(t) ==
    /\ mp[t].pc = "reg_create"
    /\ mp' = [mp EXCEPT ![t].pc = "reg_sinks"]
    /\ rcu' = [rcu EXCEPT ![t].pc = "rh_live", ![t].node = m_head]
    /\ hp' = [hp EXCEPT ![t][1] = NewHazardPointer]
    /\ IF m_head # Null THEN CallProtect(t, 1, m_head) ELSE UNCHANGED dom
    /\ UNCHANGED <<hzOwner, hzPtr, rnPointer, rnNext, rnState, m_retiredList,
                   m_retiredCount, freed, passed, hzValid>>
    /\ UNCHANGED <<calls, m_head, nodeItems, nodeState>>
    /\ UNCHANGED <<bucket, entName, entNext, entState, uaf, got>>
    /\ UNCHANGED aloneVars

\* the non-null entries of a snapshot: Logger::RegisterSink (Logger.cpp
\* 52-56) adds a sink only if it is not null
RECURSIVE NonNull(_)
NonNull(items) ==
    IF items = <<>> THEN <<>>
    ELSE IF Head(items) = MovedFrom THEN NonNull(Tail(items))
    ELSE <<Head(items)>> \o NonNull(Tail(items))

\* for (sink : sinkHandle.Items()) logger->RegisterSink(sink)
\* (LogManager.cpp 354-358); the handle is destroyed and Insert starts
\* (line 360): entry = new LoggerEntry(name, logger); oldHead = bucket.load()
Register_Sinks(t) ==
    /\ mp[t].pc = "reg_sinks"
    /\ ~InDomain(t)
    /\ FreeEntries # {}
    /\ LET node == rcu[t].node
           items == IF node = Null THEN <<>> ELSE nodeItems[node] IN
       /\ uaf' = (uaf \/ node \in freed)
       /\ \E outcome \in Deref(node) :
            IF outcome = "crash"
            THEN /\ mp' = [mp EXCEPT ![t] = Crashed]
                 /\ UNCHANGED <<loggerSinks, entState, entName>>
            ELSE /\ loggerSinks' = [loggerSinks EXCEPT ![NewEntry] = NonNull(items)]
                 /\ entState' = [entState EXCEPT ![NewEntry] = "live"]
                 /\ entName' = [entName EXCEPT ![NewEntry] = mp[t].name]
                 /\ mp' = [mp EXCEPT ![t] = [IdleMap EXCEPT !.pc = "i_cas",
                                                            !.name = mp[t].name,
                                                            !.current = NewEntry,
                                                            !.next = bucket,
                                                            !.caller = "RegisterLogger"]]
    /\ ResetHazardPointer(t, 1)
    /\ rcu' = [rcu EXCEPT ![t] = IdleRcu]
    /\ UNCHANGED <<hzOwner, rnPointer, rnNext, rnState, m_retiredList,
                   m_retiredCount, freed, dom, passed>>
    /\ UNCHANGED <<calls, m_head, nodeItems, nodeState, bucket, entNext, got>>
    /\ UNCHANGED <<mqVars, poolVars, m_running, m_flushing, messageQueue,
                   pendingMessages, m_nextQueueIndex, m_level, m_droppedMessages,
                   m_totalProcessed, lg, wk, processed, ctlVars, m_state,
                   m_threadPool, teardowns, deletes, once, m_loggerMap, drawn,
                   strVars, pipeHist>>

(***************************************************************************)
(* AtomicString (Core/AtomicString.h, Core/AtomicString.cpp): a char       *)
(* buffer that is written and read without a lock and an atomic length.    *)
(* memcpy, memcmp and the constructor of std::string access the buffer     *)
(* byte by byte; the calls of several threads interleave at every byte.    *)
(***************************************************************************)
\* everything that is not the string's
notStrVars == <<domVars, rcuVars, mapVars, mqVars, poolVars, m_running, m_flushing,
                messageQueue, pendingMessages, m_nextQueueIndex, m_level,
                m_droppedMessages, m_totalProcessed, lg, wk, processed, ctlVars,
                m_state, m_threadPool, teardowns, deletes, once, m_loggerMap,
                loggerSinks, drawn, pipeHist>>

StartCallStr(t) ==
    /\ str[t].pc = "idle"
    /\ calls < MaxCallsStr
    /\ calls' = calls + 1

\* ---- Store (AtomicString.cpp 17-23): len = min(str.length(), MAX_LENGTH - 1)
Store_Begin(t, s) ==
    /\ StartCallStr(t)
    /\ LET len == Min(Len(s), MAX_LENGTH - 1) IN
       /\ str' = [str EXCEPT ![t] = [IdleStr EXCEPT !.pc = "st_copy", !.arg = s,
                                                    !.len = len]]
       /\ written' = written \cup {SubSeq(s, 1, len)}
    /\ UNCHANGED <<m_buffer, m_length>>
    /\ UNCHANGED notStrVars

\* std::memcpy(m_buffer, str.data(), len): one byte
Store_Copy(t) ==
    /\ str[t].pc = "st_copy"
    /\ LET f == str[t] IN
       IF f.i < f.len
       THEN /\ m_buffer' = [m_buffer EXCEPT ![f.i] = f.arg[f.i + 1]]
            /\ str' = [str EXCEPT ![t].i = f.i + 1]
       ELSE /\ str' = [str EXCEPT ![t].pc = "st_nul"]
            /\ UNCHANGED m_buffer
    /\ UNCHANGED <<m_length, written, calls>>
    /\ UNCHANGED notStrVars

\* m_buffer[len] = '\0'
Store_Nul(t) ==
    /\ str[t].pc = "st_nul"
    /\ m_buffer' = [m_buffer EXCEPT ![str[t].len] = NUL]
    /\ str' = [str EXCEPT ![t].pc = "st_len"]
    /\ UNCHANGED <<m_length, written, calls>>
    /\ UNCHANGED notStrVars

\* m_length.store(len, release)
Store_Length(t) ==
    /\ str[t].pc = "st_len"
    /\ m_length' = str[t].len
    /\ str' = [str EXCEPT ![t] = IdleStr]
    /\ UNCHANGED <<m_buffer, written, calls>>
    /\ UNCHANGED notStrVars

\* ---- Load (AtomicString.cpp 25-29): len = m_length.load(acquire)
Load_Begin(t) ==
    /\ StartCallStr(t)
    /\ str' = [str EXCEPT ![t] = [IdleStr EXCEPT !.pc = "ld_copy", !.len = m_length]]
    /\ UNCHANGED <<m_buffer, m_length, written>>
    /\ UNCHANGED notStrVars

\* std::string(m_buffer, len): one byte; after the last one Load returns
Load_Copy(t) ==
    /\ str[t].pc = "ld_copy"
    /\ LET f == str[t] IN
       str' = [str EXCEPT ![t] =
                 IF f.i < f.len
                 THEN [f EXCEPT !.i = f.i + 1, !.out = Append(f.out, m_buffer[f.i])]
                 ELSE [IdleStr EXCEPT !.result = <<"Load", f.out>>]]
    /\ UNCHANGED <<m_buffer, m_length, written, calls>>
    /\ UNCHANGED notStrVars

\* ---- Compare (AtomicString.cpp 31-37): len = m_length.load(acquire);
\* if (len != str.length()) return false
Compare_Begin(t, s) ==
    /\ StartCallStr(t)
    /\ str' = [str EXCEPT ![t] =
                 IF m_length # Len(s)
                 THEN [IdleStr EXCEPT !.result = <<"Compare", s, FALSE>>]
                 ELSE [IdleStr EXCEPT !.pc = "cmp_byte", !.arg = s, !.len = m_length]]
    /\ UNCHANGED <<m_buffer, m_length, written>>
    /\ UNCHANGED notStrVars

\* std::memcmp(m_buffer, str.data(), len) == 0: one byte; it returns at the
\* first byte that differs
Compare_Byte(t) ==
    /\ str[t].pc = "cmp_byte"
    /\ LET f == str[t] IN
       str' = [str EXCEPT ![t] =
                 IF f.i >= f.len
                 THEN [IdleStr EXCEPT !.result = <<"Compare", f.arg, TRUE>>]
                 ELSE IF m_buffer[f.i] # f.arg[f.i + 1]
                 THEN [IdleStr EXCEPT !.result = <<"Compare", f.arg, FALSE>>]
                 ELSE [f EXCEPT !.i = f.i + 1]]
    /\ UNCHANGED <<m_buffer, m_length, written, calls>>
    /\ UNCHANGED notStrVars

(***************************************************************************)
(* SpecList: one thread, no other writer.  The run starts with an RCUList  *)
(* that holds a list L, or with a new RCUList, and the thread calls        *)
(* Add(x) and then Remove(x), or Remove(x) alone.  A compare_exchange_weak  *)
(* of the two calls can fail without a writer, MaxSpurious times a run.    *)
(***************************************************************************)
\* the longest list a run of SpecList starts with
MaxLen == 3

Lists == UNION {[1..n -> Items] : n \in 0..MaxLen}

InitList ==
    /\ DomainInit
    /\ calls = 0
    /\ MapInit(0)
    /\ MQInit(0)
    /\ PoolInit(0, "Active")
    /\ ThreadPoolInit(NumWorkers, TRUE)
    /\ ManagerRunning
    /\ \E x \in Items, script \in {"AddRemove", "Remove"} :
          \/ /\ RCUInit
             /\ drawn = [L |-> <<>>, head |-> Null, x |-> x, script |-> script]
          \/ \E L \in Lists :
                /\ RCUHolding(L)
                /\ drawn = [L |-> L, head |-> 1, x |-> x, script |-> script]

NextList ==
    \/ drawn.script = "AddRemove" /\ calls = 0 /\ Add_Load(1, drawn.x)
    \/ Add_New(1)
    \/ Add_Cas(1)
    \/ Add_CasSpurious(1)
    \/ /\ calls = IF drawn.script = "AddRemove" THEN 1 ELSE 0
       /\ Remove_Load(1, drawn.x)
    \/ Remove_New(1)
    \/ Remove_Cas(1)
    \/ Remove_CasSpurious(1)
    \/ RN_Begin(1)
    \/ RN_Cas(1)
    \/ RN_Count(1)
    \/ TC_Reset(1)
    \/ TC_Scan(1)
    \/ TC_Exchange(1)
    \/ TC_Delete(1)

SpecList == InitList /\ [][NextList]_vars

\* the calls of the run have returned
ListDone ==
    /\ rcu[1].pc = "idle"
    /\ ~InDomain(1)
    /\ calls = IF drawn.script = "AddRemove" THEN 2 ELSE 1

\* the items of the current snapshot
Snapshot == IF m_head = Null THEN <<>> ELSE nodeItems[m_head]

\* items without its first entry equal to x
RECURSIVE RemoveFirst(_, _)
RemoveFirst(items, x) ==
    IF items = <<>> THEN <<>>
    ELSE IF Head(items) = x THEN Tail(items)
    ELSE <<Head(items)>> \o RemoveFirst(Tail(items), x)

\* C25: Add(x) followed by Remove(x), with no other writer, leaves the list
\* with the items of L in the order of L, for every L.
C25_AddThenRemove ==
    ListDone /\ drawn.script = "AddRemove" => Snapshot = drawn.L

\* C26: Remove(x) on a snapshot with no entry equal to x returns false,
\* leaves the head as it was and retires no node; otherwise it returns
\* true and the new snapshot is the old one without its first entry equal
\* to x, every other entry kept in order.
C26_RemoveFirstMatch ==
    ListDone /\ drawn.script = "Remove" =>
        IF IndexOf(drawn.L, drawn.x, 1) = 0
        THEN ~rcu[1].result /\ m_head = drawn.head /\ passed = {}
        ELSE rcu[1].result /\ Snapshot = RemoveFirst(drawn.L, drawn.x)

(***************************************************************************)
(* SpecReuse: one thread calls Acquire, writes the message as CreateMessage*)
(* does, passes it to Release and calls Acquire again; no other thread     *)
(* uses the pool.  The run starts with a new pool, with the thread's cache *)
(* handed out, or with the cache and the first chunk handed out.           *)
(***************************************************************************)
InitReuse ==
    /\ DomainInit
    /\ calls = 0
    /\ RCUInit
    /\ MapInit(0)
    /\ MQInit(0)
    /\ ThreadPoolInit(NumWorkers, TRUE)
    /\ ManagerRunning
    /\ \E fill \in 0..2 :
          /\ PoolInit(fill, "Active")
          /\ drawn = [fill |-> fill]

\* the holder of the message that Acquire returned writes its plain fields
\* (Logger.cpp 79-85)
Holder_Fields(t, level) ==
    /\ ~InPool(t)
    /\ LET m == pl[t].result IN
       /\ m # NoMessage
       /\ holders[m] > 0
       /\ ~msgLogger[m]
       /\ msgLevel' = [msgLevel EXCEPT ![m] = level]
       /\ msgLogger' = [msgLogger EXCEPT ![m] = TRUE]
    /\ UNCHANGED <<used, tlsUsedCount, msgState, refCount, m_chunks, m_chunkMutex,
                   poolStats, pl, poolHist>>
    /\ UNCHANGED notPoolVars

NextReuse ==
    \/ calls \in {0, 2} /\ Pool_Acquire(1)
    \/ calls = 1 /\ Pool_Release(1, pl[1].result)
    \/ calls = 1 /\ \E level \in LogLevels \ {LevelOff} : Holder_Fields(1, level)
    \/ Acquire_Tls(1)
    \/ Acquire_NumChunks(1)
    \/ Acquire_NextIndex(1)
    \/ Acquire_Scan(1)
    \/ Acquire_SizeAdd(1)
    \/ Acquire_SizeLoad(1)
    \/ Acquire_PeakLoad(1)
    \/ Acquire_PeakStore(1)
    \/ Acquire_State(1)
    \/ Acquire_Ref(1)
    \/ Acquire_Lock(1)
    \/ Acquire_SlowScan(1)
    \/ Acquire_Grow(1)
    \/ Acquire_CapacityAdd(1)
    \/ Acquire_UseFirst(1)
    \/ Release_Cas(1)
    \/ Release_Load(1)
    \/ Release_Store(1)
    \/ Finalize_State(1)
    \/ Finalize_Find(1)
    \/ ResetMessage_Fields(1)
    \/ ResetMessage_State(1)
    \/ ResetMessage_Ref(1)
    \/ Finalize_Tls(1)
    \/ Finalize_Exchange(1)
    \/ Finalize_SizeSub(1)

SpecReuse == InitReuse /\ [][NextReuse]_vars

\* the thread is in no call and has made n calls
ReuseAfter(n) == calls = n /\ ~InPool(1)

\* m_size and the usedCount of the thread's cache
InUse == <<m_size, tlsUsedCount[1]>>

\* what the first Acquire of the run adds to the counts the run started with
InUseAfterFirst ==
    IF drawn.fill = 0 THEN <<0, 1>>
    ELSE IF drawn.fill = 1 THEN <<1, CACHE_SIZE>>
    ELSE <<INITIAL_CAPACITY + 1, CACHE_SIZE>>

\* C27: on one thread, Acquire, Release of that message and Acquire again
\* return a reset Message (plain fields cleared, no logger, level Info, state
\* Active, reference count 1), and the in-use counts of the pool are what
\* they were after the first Acquire.
C27_AcquireReleaseAcquire ==
    /\ ReuseAfter(1) => InUse = InUseAfterFirst
    /\ ReuseAfter(3) =>
          LET m == pl[1].result IN
          /\ m # NoMessage
          /\ ~msgLogger[m]
          /\ msgLevel[m] = LevelInfo
          /\ msgState[m] = "Active"
          /\ refCount[m] = 1
          /\ InUse = InUseAfterFirst

\* the second Acquire has returned a message of the chunk that the first
\* Acquire of the run added
C27_Witness ==
    /\ ReuseAfter(3)
    /\ drawn.fill = 2
    /\ pl[1].result = ChunkMessage(2, 0)
    /\ msgState[pl[1].result] = "Active"

(***************************************************************************)
(* SpecFilter: one thread calls Log once for each level from Trace to Off, *)
(* in this order, on a logger of level Info or Warn; one of the calls, or  *)
(* none, has an empty message.  The workers process what is pushed.        *)
(***************************************************************************)
\* the levels of Level.h 10-19, Level::Off included
AllLevels == 0..LevelOff

\* the calls of a run: one for each level
FilterCalls == LevelOff + 1

InitFilter ==
    /\ DomainInit
    /\ calls = 0
    /\ RCUInit
    /\ MapInit(0)
    /\ MQInit(0)
    /\ PoolInit(0, "Active")
    /\ ManagerRunning
    /\ \E level \in {LevelInfo, LevelWarn}, empty \in 0..FilterCalls :
          /\ ThreadPoolWith(NumWorkers, TRUE, [t \in LogThreads |-> IdleLog], level)
          /\ drawn = [level |-> level, empty |-> empty]

\* the level and the message of the call that follows calls calls
NextLevel == calls
NextEmpty == calls + 1 = drawn.empty

NextFilter ==
    \/ Log_Call(1, NextLevel, NextEmpty, FilterCalls)
    \/ Log_Fields(1)
    \/ Log_GetThreadPool(1)
    \/ Enqueue_Running(1)
    \/ Enqueue_Flushing(1)
    \/ Enqueue_IsActive(1)
    \/ Enqueue_AddRef(1)
    \/ Enqueue_Select(1)
    \/ Enqueue_Push(1)
    \/ Log_Total(1)
    \/ \E w \in Workers :
        \/ Worker_Wait(w)
        \/ Worker_IsActive(w)
        \/ Worker_Logger(w)
        \/ Process_IsActive(w)
        \/ Process_Handle(w)
        \/ Process_OutputCall(w)
        \/ Process_OutputReturn(w)
        \/ Process_Release(w)
        \/ Worker_ReleaseRef(w)
    \/ \E t \in PoolThreads :
        \/ Acquire_Tls(t)
        \/ Acquire_NumChunks(t)
        \/ Acquire_NextIndex(t)
        \/ Acquire_Scan(t)
        \/ Acquire_SizeAdd(t)
        \/ Acquire_SizeLoad(t)
        \/ Acquire_PeakLoad(t)
        \/ Acquire_PeakStore(t)
        \/ Acquire_State(t)
        \/ Acquire_Ref(t)
        \/ Acquire_Lock(t)
        \/ Acquire_SlowScan(t)
        \/ Acquire_Grow(t)
        \/ Acquire_CapacityAdd(t)
        \/ Acquire_UseFirst(t)
        \/ Release_Cas(t)
        \/ Release_Load(t)

SpecFilter == InitFilter /\ [][NextFilter]_vars

\* the filter of Log for the call that follows calls calls
NextPasses == ~NextEmpty /\ NextLevel >= m_level /\ NextLevel < LevelOff

\* the record of a Log call passes the filter of the run
RecPasses(r) == r[1] # drawn.empty /\ r[2] >= drawn.level /\ r[2] < LevelOff

\* every call has returned, the queues are empty and the workers wait
FilterQuiet ==
    /\ calls = FilterCalls
    /\ lg[1].pc = "idle"
    /\ ~InPool(1)
    /\ \A q \in Queues : messageQueue[q] = <<>>
    /\ \A w \in Workers : wk[w].pc = "wait" /\ ~InPool(w)

\* the levels of the records the sinks have received
SinkLevels == {sinkLog[i][2] : i \in 1..Len(sinkLog)}

InitSinks ==
    /\ DomainInit
    /\ calls = 0
    /\ RCUInitSinks
    /\ \E k \in 0..1 : MapInit(k)
    /\ MQInit(0)
    /\ PoolInit(0, "Active")
    /\ PipeInit(TRUE)

\* the RegisterSink call of thread t has returned or has not begun
SinkCallOver(t) == rcu[t].pc = "idle" /\ ~InDomain(t)

\* the name of the logger that the run registers: not the name of the
\* logger that exists
NewName == NumNames

NextSinks ==
    \/ calls = 0 /\ RegisterSink_Begin(1, 1)
    \/ calls = 1 /\ RegisterSink_Begin(2, 2)
    \/ calls = 2 /\ SinkCallOver(1) /\ SinkCallOver(2) /\ RegisterLogger_Begin(1, NewName)
    \/ Register_State(1)
    \/ Find_Loop(1)
    \/ Find_Validate(1)
    \/ Find_Name(1)
    \/ Find_Next(1)
    \/ Register_Handle(1)
    \/ Register_Sinks(1)
    \/ Insert_Cas(1)
    \/ \E t \in {1, 2} :
        \/ Add_New(t)
        \/ Add_Cas(t)
        \/ Add_CasSpurious(t)
        \/ PP_Scan(t)
        \/ PP_Store(t)
        \/ RN_Begin(t)
        \/ RN_Cas(t)
        \/ RN_Count(t)

SpecSinks == InitSinks /\ [][NextSinks]_vars

\* the loggers of the registry with name n
LoggersNamed(n) == {p \in Ptrs : entState[p] = "live" /\ entName[p] = n}

\* the three calls of the run have returned
SinksDone ==
    /\ calls = 3
    /\ mp[1].pc = "idle"
    /\ SinkCallOver(1)
    /\ SinkCallOver(2)

\* C29: RegisterSink leaves the sink list of every logger registered before
\* as it was (here: empty), and a logger that RegisterLogger creates after
\* the RegisterSink calls have returned starts with all the sinks registered
\* so far, in the order of their registration (either order for two calls
\* that overlap).
C29_SinksInherited ==
    /\ \A n \in Names \ {NewName} : \A p \in LoggersNamed(n) : loggerSinks[p] = <<>>
    /\ SinksDone =>
          /\ LoggersNamed(NewName) # {}
          /\ \A p \in LoggersNamed(NewName) : loggerSinks[p] \in {<<1, 2>>, <<2, 1>>}


(***************************************************************************)
(* SpecTwice: the threads call MessagePool::Release on one Message, again  *)
(* and again and at the same time.  The Message was acquired once: it is   *)
(* the Message of the cache of thread 1 or of thread 2, or the first of    *)
(* the first chunk; no Acquire runs.                                       *)
(***************************************************************************)
\* Release calls of a run of SpecTwice
MaxCallsTwice == 3

\* the Messages that earlier Acquire calls returned to the logging threads
Handed(fill) ==
    {TlsMessage(t, 0) : t \in LogThreads}
        \cup (IF fill >= 2 THEN {ChunkMessage(1, 0)} ELSE {})

InitTwice ==
    /\ DomainInit
    /\ calls = 0
    /\ RCUInit
    /\ MapInit(0)
    /\ MQInit(0)
    /\ ThreadPoolInit(NumWorkers, TRUE)
    /\ ManagerRunning
    /\ \E fill \in 1..2 :
          /\ PoolInit(fill, "Active")
          /\ \E m \in Handed(fill) : drawn = [fill |-> fill, m |-> m]

\* a further Release(drawn.m), whether or not the Message is still held
Release_Again(t) ==
    /\ ~InPool(t)
    /\ calls < MaxCallsTwice
    /\ calls' = calls + 1
    /\ CallRelease(t, drawn.m)
    /\ UNCHANGED <<used, tlsUsedCount, msgVars, m_chunks, m_chunkMutex, poolStats,
                   acquired>>
    /\ UNCHANGED <<domVars, rcuVars, mapVars, mqVars, pipeVars>>

NextTwice ==
    \E t \in LogThreads :
        \/ Release_Again(t)
        \/ Release_Cas(t)
        \/ Release_Load(t)
        \/ Release_Store(t)
        \/ Finalize_State(t)
        \/ Finalize_Find(t)
        \/ ResetMessage_Fields(t)
        \/ ResetMessage_State(t)
        \/ ResetMessage_Ref(t)
        \/ Finalize_Tls(t)
        \/ Finalize_Exchange(t)
        \/ Finalize_SizeSub(t)

SpecTwice == InitTwice /\ [][NextTwice]_vars

\* the Release calls for Message m that have gone past the compare-exchange
Proceeding(m) == {t \in PoolThreads : pl[t].msg = m /\ pl[t].pc \notin {"idle", "r_cas"}}

\* what a Release call can change in the pool
Released == <<used, tlsUsedCount, msgVars, m_size>>

\* C33: of the Release calls on one Message only the one whose
\* compare-exchange finds Active goes on; a call that finds another state
\* returns and changes nothing; at any time at most one call is past the
\* compare-exchange, and the Message is reset and its in-use flag cleared
\* only while the acquisition has not been finalized, that is at most once.
C33_ReleaseOnce ==
    /\ [][/\ \A t \in LogThreads :
               pl[t].pc = "r_cas" /\ msgState[pl[t].msg] # "Active" /\ pl'[t] # pl[t]
                   => pl'[t] = IdlePool /\ Released' = Released
          /\ \A m \in Messages :
               \/ msgState[m] # "Pooled" /\ msgState'[m] = "Pooled"
               \/ used[m] /\ ~used'[m]
               => acquired[m] = 1 /\ Proceeding(m) # {}]_vars
    /\ [](\A m \in Messages : Cardinality(Proceeding(m)) <= 1)

\* every call of the run has returned and one of them has reset the Message
\* and cleared its in-use flag
C33_Witness ==
    /\ calls = MaxCallsTwice
    /\ \A t \in LogThreads : ~InPool(t)
    /\ msgState[drawn.m] = "Pooled"
    /\ ~used[drawn.m]


(***************************************************************************)
(* SpecShrink: the threads call Acquire, Release of a Message they hold    *)
(* and TryShrink with its default threshold on one MessagePool whose cache *)
(* slots, and possibly whose first chunk, are handed out.                  *)
(***************************************************************************)
\* calls of a run of SpecShrink
MaxCallsShrink == 4

\* TryShrink's default threshold 0.3334f, in ten-thousandths
DefaultThreshold == 3334

InitShrink ==
    /\ DomainInit
    /\ calls = 0
    /\ RCUInit
    /\ MapInit(0)
    /\ MQInit(0)
    /\ ThreadPoolInit(NumWorkers, TRUE)
    /\ ManagerRunning
    /\ \E fill \in 1..2 :
          /\ PoolInit(fill, "Active")
          /\ drawn = [fill |-> fill]

StartCallShrink(t) ==
    /\ ~InPool(t)
    /\ calls < MaxCallsShrink
    /\ calls' = calls + 1
    /\ UNCHANGED <<used, tlsUsedCount, msgVars, m_chunks, m_chunkMutex, poolStats,
                   acquired>>
    /\ UNCHANGED <<domVars, rcuVars, mapVars, mqVars, pipeVars>>

Shrink_Call(t) ==
    /\ StartCallShrink(t)
    /\ pl' = [pl EXCEPT ![t] = [IdlePool EXCEPT !.pc = "s_lock"]]
    /\ UNCHANGED holders

Shrink_Acquire(t) ==
    /\ StartCallShrink(t)
    /\ CallAcquire(t)
    /\ UNCHANGED holders

\* Release of the Message that the thread's last Acquire returned
Shrink_Release(t) ==
    /\ StartCallShrink(t)
    /\ pl[t].result # NoMessage
    /\ holders[pl[t].result] > 0
    /\ CallRelease(t, pl[t].result)

NextShrink ==
    \E t \in LogThreads :
        \/ Shrink_Acquire(t)
        \/ Shrink_Release(t)
        \/ Shrink_Call(t)
        \/ Shrink_Lock(t)
        \/ Shrink_Usage(t, DefaultThreshold)
        \/ Shrink_Check(t)
        \/ Shrink_Pop(t)
        \/ Acquire_Tls(t)
        \/ Acquire_NumChunks(t)
        \/ Acquire_NextIndex(t)
        \/ Acquire_Scan(t)
        \/ Acquire_SizeAdd(t)
        \/ Acquire_SizeLoad(t)
        \/ Acquire_PeakLoad(t)
        \/ Acquire_PeakStore(t)
        \/ Acquire_State(t)
        \/ Acquire_Ref(t)
        \/ Acquire_Lock(t)
        \/ Acquire_SlowScan(t)
        \/ Acquire_Grow(t)
        \/ Acquire_CapacityAdd(t)
        \/ Acquire_UseFirst(t)
        \/ Release_Cas(t)
        \/ Release_Load(t)
        \/ Release_Store(t)
        \/ Finalize_State(t)
        \/ Finalize_Find(t)
        \/ ResetMessage_Fields(t)
        \/ ResetMessage_State(t)
        \/ ResetMessage_Ref(t)
        \/ Finalize_Exchange(t)
        \/ Finalize_SizeSub(t)

SpecShrink == InitShrink /\ [][NextShrink]_vars

\* the Messages of the chunks that m_chunks holds
InChunks(m) == m[1] = "chunk" => m[2] <= Len(m_chunks)

\* the frames of an Acquire that has claimed a slot and not yet returned
Claimed == {"a_sizeadd", "a_sizeload", "a_peakload", "a_peakstore", "a_state", "a_ref"}

\* C34: TryShrink removes the last chunk only when every slot of it is unused
\* at that moment and it is not the only chunk, and no slot that an Acquire
\* has claimed, or has returned to a holder, lies in a removed chunk.
C34_ShrinkRemovesUnused ==
    /\ [][Len(m_chunks') < Len(m_chunks) =>
             /\ Len(m_chunks') >= 1
             /\ \A j \in 0..(m_chunks[Len(m_chunks)] - 1) :
                    ~used[ChunkMessage(Len(m_chunks), j)]]_vars
    /\ [](/\ \A t \in LogThreads : pl[t].pc \in Claimed => InChunks(pl[t].msg)
          /\ \A m \in Messages : holders[m] > 0 => InChunks(m))


(***************************************************************************)
(* SpecAdds: two threads call Add on one RCUList that holds a list L, at   *)
(* the same time or one after the other; thread t adds the item t.  A      *)
(* compare-exchange fails only when the other thread has replaced the      *)
(* head.                                                                   *)
(***************************************************************************)
Adders == {1, 2}

InitAdds ==
    /\ DomainInit
    /\ calls = 0
    /\ MapInit(0)
    /\ MQInit(0)
    /\ PoolInit(0, "Active")
    /\ ThreadPoolInit(NumWorkers, TRUE)
    /\ ManagerRunning
    /\ \E L \in Lists :
          /\ RCUHolding(L)
          /\ drawn = [L |-> L]

NextAdds ==
    \/ calls = 0 /\ Add_Load(1, 1)
    \/ calls = 1 /\ Add_Load(2, 2)
    \/ \E t \in Adders :
        \/ Add_New(t)
        \/ Add_Cas(t)
        \/ RN_Begin(t)
        \/ RN_Cas(t)
        \/ RN_Count(t)
        \/ TC_Reset(t)
        \/ TC_Scan(t)
        \/ TC_Exchange(t)
        \/ TC_Delete(t)

SpecAdds == InitAdds /\ [][NextAdds]_vars

\* both Add calls have returned
AddsDone ==
    /\ calls = Cardinality(Adders)
    /\ \A t \in Adders : rcu[t].pc = "idle" /\ ~InDomain(t)

\* the number of entries of items that equal x
RECURSIVE Count(_, _)
Count(items, x) ==
    IF items = <<>> THEN 0
    ELSE (IF Head(items) = x THEN 1 ELSE 0) + Count(Tail(items), x)

\* C35: when the concurrent Add calls have returned the list holds the items
\* of L and each added item once more, and no moved-from entry; a node is
\* passed to RetireNode at most once, and every node that was replaced as
\* head has been passed to it.
C35_ConcurrentAdds ==
    /\ [](AddsDone =>
            /\ \A x \in Items :
                 Count(Snapshot, x) = Count(drawn.L, x) + (IF x \in Adders THEN 1 ELSE 0)
            /\ Count(Snapshot, MovedFrom) = 0
            /\ Cardinality(passed) = Cardinality(Adders))
    /\ [][\A t \in Adders : RetireCalled(t) => dom'[t].ptr \notin passed]_vars


(***************************************************************************)
(* SpecStr: threads that call SetDefaultLoggerName, which calls Store, and *)
(* Load and Compare on the AtomicString of a running LogManager, which     *)
(* holds the name the constructor stored.                                  *)
(***************************************************************************)
StrThreads == {1, 2}

InitStr ==
    /\ DomainInit
    /\ calls = 0
    /\ RCUInit
    /\ MapInit(0)
    /\ MQInit(0)
    /\ PoolInit(0, "Active")
    /\ PipeInit(TRUE)

\* LogManager::SetDefaultLoggerName (LogManager.cpp 528-537) up to its Store:
\* it returns when the manager is not Running or the name is empty
SetDefaultLoggerName(t, name) ==
    /\ m_state = "Running"
    /\ name # <<>>
    /\ Store_Begin(t, name)

NextStr ==
    \E t \in StrThreads :
        \/ \E name \in Strings : SetDefaultLoggerName(t, name)
        \/ Store_Copy(t)
        \/ Store_Nul(t)
        \/ Store_Length(t)
        \/ Load_Begin(t)
        \/ Load_Copy(t)
        \/ \E s \in Strings : Compare_Begin(t, s)
        \/ Compare_Byte(t)

SpecStr == InitStr /\ [][NextStr]_vars

\* C36: a Load returns, and a Compare that returns true was given, a value
\* that the constructor or a Store call that has begun wrote: never a mix of
\* the bytes of one value with the length or the bytes of another.
C36_LoadSeesWritten ==
    \A t \in StrThreads :
        LET r == str[t].result IN
        /\ r[1] = "Load" => r[2] \in written
        /\ r[1] = "Compare" => (r[3] => r[2] \in written)

(***************************************************************************)
(* SpecRemove: thread 1 calls Remove(x) on an RCUList that holds a list L  *)
(* while thread 2 makes one call of Add, Remove or Clear.  A               *)
(* compare-exchange fails only when the other thread has replaced the      *)
(* head.                                                                   *)
(***************************************************************************)
Removers == {1, 2}

InitRemove ==
    /\ DomainInit
    /\ calls = 0
    /\ MapInit(0)
    /\ MQInit(0)
    /\ PoolInit(0, "Active")
    /\ ThreadPoolInit(NumWorkers, TRUE)
    /\ ManagerRunning
    /\ \E L \in Lists, x \in Items :
          /\ RCUHolding(L)
          /\ drawn = [L |-> L, x |-> x]

NextRemove ==
    \/ calls = 0 /\ Remove_Load(1, drawn.x)
    \/ calls = 1 /\ \E y \in Items : Add_Load(2, y)
    \/ calls = 1 /\ \E y \in Items : Remove_Load(2, y)
    \/ calls = 1 /\ Clear(2)
    \/ \E t \in Removers :
        \/ Add_New(t)
        \/ Add_Cas(t)
        \/ Remove_New(t)
        \/ Remove_Cas(t)
        \/ RN_Begin(t)
        \/ RN_Cas(t)
        \/ RN_Count(t)
        \/ TC_Reset(t)
        \/ TC_Scan(t)
        \/ TC_Exchange(t)
        \/ TC_Delete(t)

SpecRemove == InitRemove /\ [][NextRemove]_vars

\* the compare-exchange of Remove succeeds in this step and Remove returns true
RemoveReplaces(t) ==
    /\ rcu[t].pc = "rem_cas"
    /\ Remove_Cas(t)
    /\ rcu'[t].pc = "idle"

\* C38: after a compare-exchange that failed because a concurrent Add, Remove
\* or Clear replaced the head, Remove never dereferences a null head, and it
\* returns true only if the snapshot it replaced in the end held an entry
\* equal to the item.
C38_RemoveFromNewHead ==
    /\ [](\A t \in Removers : rcu[t].pc # "crash")
    /\ [][\A t \in Removers :
            RemoveReplaces(t)
            => IndexOf(nodeItems[rcu[t].oldHead], rcu[t].item, 1) # 0]_vars


=============================================================================
